---- MODULE Spec2Model ----
(***************************************************************************)
(* NoteSpace backend: the meta-document processing pipeline.               *)
(*                                                                         *)
(*   ChunkSpec  chunk_text (backend/llm_service.py) run as a state machine *)
(*              on bounded texts, window sizes and overlaps.               *)
(*   SynthSpec  synthesize_text_with_llm (backend/llm_service.py) run on   *)
(*              bounded chunk lists against an API that may fail.          *)
(*   CleanSpec  clean_text (backend/text_extractor.py) applied to bounded  *)
(*              texts, and once more to its own result.                    *)
(*   ExtractSpec  extract_text_from_file (backend/text_extractor.py) on    *)
(*              files that exist or not, of every kind, with libraries     *)
(*              that may fail.                                             *)
(*   UpvoteSpec  upvote_note (backend/upload_routes.py) run by concurrent  *)
(*              request threads against tables notes and upvotes.          *)
(*   Spec       process_topic_files / process_single_file                  *)
(*              (backend/processing_pipeline.py) run by concurrent request *)
(*              threads against the meta_documents table.                  *)
(*                                                                         *)
(* A text is a sequence of one-character strings.                          *)
(***************************************************************************)
EXTENDS Integers, Sequences, FiniteSets, TLC

VARIABLES
    \* ---- chunk_text (llm_service.py) ----
    TIKTOKEN_AVAILABLE,  \* module flag set by the optional import
    tk_raises,           \* input: the tokenizer library raises inside the try block
    text,                \* argument
    max_chunk_size,      \* argument
    overlap,             \* argument
    ck_pc,               \* position inside chunk_text
    encoded_tokens,      \* local of the tiktoken branch
    text_chunks,         \* local: the chunks appended so far
    chunk_start_index,   \* local: start of the next window
    windows,             \* history: <<start, end>> of every window appended
    ck_result,           \* the returned list (meaningful once ck_pc = "returned")
    ck_branch,           \* history: the branch that is running or has returned
    \* ---- synthesize_text_with_llm (llm_service.py) ----
    OPENAI_API_KEY,      \* environment: the key is set
    chunks,              \* argument
    sy_pc,               \* position inside synthesize_text_with_llm
    combined_chunks_text,\* local: the numbered chunks joined by the separator
    api_response,        \* local: the response of the completion API, once bound
    api_error,           \* local of the except clause: str(api_error)
    openai_clients,      \* history: number of clients constructed
    completion_requests, \* history: the prompts sent to the completion API
    sy_result,           \* the returned tuple (meaningful once sy_pc = "returned")
    \* ---- clean_text (text_extractor.py) ----
    cl_arg_none,         \* argument: the caller passed None
    cl_arg,              \* argument: the text passed (<<>> with None)
    cl_text,             \* local: text, rebound by lines 105 and 107
    cl_lines,            \* local: lines
    cl_pc,               \* position inside clean_text
    cl_result,           \* the returned text (meaningful once cl_pc = "returned")
    cl_call,             \* history: 1 for the first call, 2 for the call on its result
    \* ---- extract_text_from_file (text_extractor.py) ----
    file_path,           \* argument: <<root, extension>> of the path
    ex_exists,           \* environment: os.path.exists(file_path) at line 21
    ex_pieces,           \* environment: the page, paragraph or line texts of the file
    ex_fault,            \* environment: how opening or reading the file fails
    ex_pc,               \* position inside extract_text_from_file and its helpers
    ex_result,           \* the returned pair (meaningful once ex_pc = "returned")
    \* ---- upvote_note (upload_routes.py) ----
    upvotes,             \* the committed rows of table upvotes (id = index)
    upvote_count,        \* column notes.upvote_count of every note, as committed
    up,                  \* per request thread: the locals of its upvote request
    up_calls,            \* number of upvote requests started so far
    \* ---- processing pipeline (processing_pipeline.py) ----
    meta_documents,      \* the committed rows of table meta_documents (id = index)
    inv,                 \* per request thread: the locals of its invocation
    calls                \* number of invocations started so far

chunkVars == <<TIKTOKEN_AVAILABLE, tk_raises, text, max_chunk_size, overlap, ck_pc,
               encoded_tokens, text_chunks, chunk_start_index, windows, ck_result,
               ck_branch>>
synthVars == <<OPENAI_API_KEY, chunks, sy_pc, combined_chunks_text, api_response, api_error,
               openai_clients, completion_requests, sy_result>>
cleanVars == <<cl_arg_none, cl_arg, cl_text, cl_lines, cl_pc, cl_result, cl_call>>
extractVars == <<file_path, ex_exists, ex_pieces, ex_fault, ex_pc, ex_result>>
upvoteVars == <<upvotes, upvote_count, up, up_calls>>
pipeVars == <<meta_documents, inv, calls>>
vars == <<chunkVars, synthVars, cleanVars, extractVars, upvoteVars, pipeVars>>

None == "None"

Min(a, b) == IF a <= b THEN a ELSE b
Max(a, b) == IF a >= b THEN a ELSE b

(***************************************************************************)
(* Bounds of the chunker runs.                                             *)
(***************************************************************************)
MaxTextLen == 9
MaxChunkSize == 2
MaxOverlap == 2
\* The entries of text_chunks that are kept: more than any returning run
\* within the bounds appends (such a run appends at most one window per
\* character).
MaxChunks == MaxTextLen + 1

Alphabet == {"a", "b"}

CHARACTERS_PER_TOKEN_ESTIMATE == 4
DEFAULT_MAX_CHUNK_SIZE_TOKENS == 8000
DEFAULT_CHUNK_OVERLAP_TOKENS == 200

RECURSIVE TextsOfLen(_)
TextsOfLen(n) ==
    IF n = 0 THEN {<<>>}
    ELSE {Append(t, c) : t \in TextsOfLen(n - 1), c \in Alphabet}

Texts == UNION {TextsOfLen(n) : n \in 0..MaxTextLen}

(***************************************************************************)
(* The tokenizer.  tiktoken is a byte-pair encoder: a token is a run of    *)
(* one or more characters, and decoding a token slice concatenates the     *)
(* tokens' characters.  The model merges the pair "aa" into one token.     *)
(***************************************************************************)
RECURSIVE encode(_)
encode(t) ==
    IF t = <<>> THEN <<>>
    ELSE IF Len(t) >= 2 /\ t[1] = "a" /\ t[2] = "a"
         THEN <<SubSeq(t, 1, 2)>> \o encode(SubSeq(t, 3, Len(t)))
         ELSE <<SubSeq(t, 1, 1)>> \o encode(SubSeq(t, 2, Len(t)))

RECURSIVE decode(_)
decode(toks) ==
    IF toks = <<>> THEN <<>> ELSE toks[1] \o decode(Tail(toks))

\* Python's seq[start:end]: a negative index counts from the end, and both
\* indices are clamped to 0..len(seq).
PyIndex(i, n) == IF i < 0 THEN Max(i + n, 0) ELSE Min(i, n)
PySlice(s, start, end) ==
    LET lo == PyIndex(start, Len(s))
        hi == PyIndex(end, Len(s))
    IN  IF lo < hi THEN SubSeq(s, lo + 1, hi) ELSE <<>>

\* chunk_end_index = min(chunk_start_index + max_chunk_size, len(...))
ChunkEndIndex(start, size, n) == Min(start + size, n)

\* text_chunks.append(...): the list is followed for its first MaxChunks
\* entries; a run whose window advances appends fewer.
Appended(list, item) == IF Len(list) < MaxChunks THEN Append(list, item) ELSE list

\* The start index as the model keeps it.  With overlap > max_chunk_size the
\* index falls without bound; from LowestIndex down both ends of the slice
\* clamp to 0, the slice is empty and the index keeps falling, so all those
\* values are kept as LowestIndex.  The index cannot get there within the
\* first MaxChunks iterations.
LowestIndex ==
    0 - (MaxChunks * MaxOverlap * CHARACTERS_PER_TOKEN_ESTIMATE
            + MaxTextLen + MaxChunkSize * CHARACTERS_PER_TOKEN_ESTIMATE)
Tracked(index) == Max(index, LowestIndex)

\* chunk_start_index = chunk_end_index - overlap (lines 91, 114).  The
\* Skipping variant starts the next window one index late; C9 tells them apart.
NextStartIndexSkipping(end, ovl) == end - ovl + 1
NextStartIndex(end, ovl) == end - ovl

\* if len(...) <= max_chunk_size: return [text]
FitsOneChunk(n, size) == n <= size

\* return [text] (lines 79, 103).  The Dropped variant returns no segment; C8
\* tells them apart.
SingleChunkDropped(t) == <<>>
SingleChunk(t) == <<t>>

(***************************************************************************)
(* chunk_text, llm_service.py:49-116, one action per block.                *)
(***************************************************************************)
ChunkInit ==
    /\ TIKTOKEN_AVAILABLE \in BOOLEAN
    /\ tk_raises \in BOOLEAN
    /\ (tk_raises => TIKTOKEN_AVAILABLE)
    /\ text \in Texts
    /\ max_chunk_size \in 1..MaxChunkSize
    /\ overlap \in 0..MaxOverlap
    /\ ck_pc = "start"
    /\ encoded_tokens = <<>>
    /\ text_chunks = <<>>
    /\ chunk_start_index = 0
    /\ windows = <<>>
    /\ ck_result = <<>>
    /\ ck_branch = "none"

\* lines 68-72: "if not text: return []", then the choice of the branch
ChunkEntry ==
    /\ ck_pc = "start"
    /\ IF text = <<>>
       THEN /\ ck_result' = <<>>
            /\ ck_pc' = "returned"
            /\ UNCHANGED ck_branch
       ELSE /\ ck_pc' = (IF TIKTOKEN_AVAILABLE THEN "encode" ELSE "fallback")
            /\ ck_branch' = (IF TIKTOKEN_AVAILABLE THEN "tiktoken" ELSE "characters")
            /\ UNCHANGED ck_result
    /\ UNCHANGED <<TIKTOKEN_AVAILABLE, tk_raises, text, max_chunk_size, overlap,
                   encoded_tokens, text_chunks, chunk_start_index, windows>>
    /\ UNCHANGED <<synthVars, cleanVars, extractVars, upvoteVars, pipeVars>>

\* lines 74-82: encode, the single-chunk return, the loop's initialisation
ChunkEncode ==
    /\ ck_pc = "encode"
    /\ encoded_tokens' = encode(text)
    /\ IF FitsOneChunk(Len(encoded_tokens'), max_chunk_size)
       THEN /\ ck_result' = SingleChunk(text)
            /\ ck_pc' = "returned"
            /\ UNCHANGED <<text_chunks, chunk_start_index, windows>>
       ELSE /\ text_chunks' = <<>>
            /\ chunk_start_index' = 0
            /\ windows' = <<>>
            /\ ck_pc' = "token_loop"
            /\ UNCHANGED ck_result
    /\ UNCHANGED <<ck_branch, TIKTOKEN_AVAILABLE, tk_raises, text, max_chunk_size, overlap>>
    /\ UNCHANGED <<synthVars, cleanVars, extractVars, upvoteVars, pipeVars>>

\* lines 84 and 93: the test of the while condition, then the body or the return
ChunkTokenLoop ==
    /\ ck_pc = "token_loop"
    /\ IF chunk_start_index < Len(encoded_tokens)
       THEN /\ ck_pc' = "token_body"
            /\ UNCHANGED ck_result
       ELSE /\ ck_result' = text_chunks
            /\ ck_pc' = "returned"
    /\ UNCHANGED <<ck_branch, TIKTOKEN_AVAILABLE, tk_raises, text, max_chunk_size, overlap,
                   encoded_tokens, text_chunks, windows, chunk_start_index>>
    /\ UNCHANGED <<synthVars, cleanVars, extractVars, upvoteVars, pipeVars>>

\* lines 85-91: the body of the loop
ChunkTokenBody ==
    /\ ck_pc = "token_body"
    /\ LET chunk_end_index ==
               ChunkEndIndex(chunk_start_index, max_chunk_size, Len(encoded_tokens))
           chunk_token_slice ==
               PySlice(encoded_tokens, chunk_start_index, chunk_end_index)
       IN  /\ text_chunks' = Appended(text_chunks, decode(chunk_token_slice))
           /\ windows' = Appended(windows, <<chunk_start_index, chunk_end_index>>)
           /\ chunk_start_index' = Tracked(NextStartIndex(chunk_end_index, overlap))
    /\ ck_pc' = "token_loop"
    /\ UNCHANGED <<ck_branch, TIKTOKEN_AVAILABLE, tk_raises, text, max_chunk_size, overlap,
                   encoded_tokens, ck_result>>
    /\ UNCHANGED <<synthVars, cleanVars, extractVars, upvoteVars, pipeVars>>

\* lines 94-96: an exception anywhere in the try block falls through to the
\* character-based branch
ChunkTiktokenRaises ==
    /\ ck_pc \in {"encode", "token_body"}
    /\ tk_raises
    /\ ck_pc' = "fallback"
    /\ ck_branch' = "characters"
    /\ windows' = <<>>
    /\ UNCHANGED <<TIKTOKEN_AVAILABLE, tk_raises, text, max_chunk_size, overlap,
                   encoded_tokens, text_chunks, chunk_start_index, ck_result>>
    /\ UNCHANGED <<synthVars, cleanVars, extractVars, upvoteVars, pipeVars>>

\* characters_per_chunk = max_chunk_size * CHARACTERS_PER_TOKEN_ESTIMATE
characters_per_chunk == max_chunk_size * CHARACTERS_PER_TOKEN_ESTIMATE
\* characters_overlap = overlap * CHARACTERS_PER_TOKEN_ESTIMATE
characters_overlap == overlap * CHARACTERS_PER_TOKEN_ESTIMATE

\* lines 99-106: the character estimate, the single-chunk return, the loop's
\* initialisation
ChunkFallback ==
    /\ ck_pc = "fallback"
    /\ IF FitsOneChunk(Len(text), characters_per_chunk)
       THEN /\ ck_result' = SingleChunk(text)
            /\ ck_pc' = "returned"
            /\ UNCHANGED <<text_chunks, chunk_start_index, windows>>
       ELSE /\ text_chunks' = <<>>
            /\ chunk_start_index' = 0
            /\ windows' = <<>>
            /\ ck_pc' = "char_loop"
            /\ UNCHANGED ck_result
    /\ UNCHANGED <<ck_branch, TIKTOKEN_AVAILABLE, tk_raises, text, max_chunk_size, overlap,
                   encoded_tokens>>
    /\ UNCHANGED <<synthVars, cleanVars, extractVars, upvoteVars, pipeVars>>

\* lines 108 and 116: the test of the while condition, then the body or the return
ChunkCharLoop ==
    /\ ck_pc = "char_loop"
    /\ IF chunk_start_index < Len(text)
       THEN /\ ck_pc' = "char_body"
            /\ UNCHANGED ck_result
       ELSE /\ ck_result' = text_chunks
            /\ ck_pc' = "returned"
    /\ UNCHANGED <<ck_branch, TIKTOKEN_AVAILABLE, tk_raises, text, max_chunk_size, overlap,
                   encoded_tokens, text_chunks, windows, chunk_start_index>>
    /\ UNCHANGED <<synthVars, cleanVars, extractVars, upvoteVars, pipeVars>>

\* lines 109-114: the body of the loop
ChunkCharBody ==
    /\ ck_pc = "char_body"
    /\ LET chunk_end_index ==
               ChunkEndIndex(chunk_start_index, characters_per_chunk, Len(text))
           chunk_text_content == PySlice(text, chunk_start_index, chunk_end_index)
       IN  /\ text_chunks' = Appended(text_chunks, chunk_text_content)
           /\ windows' = Appended(windows, <<chunk_start_index, chunk_end_index>>)
           /\ chunk_start_index' =
                  Tracked(NextStartIndex(chunk_end_index, characters_overlap))
    /\ ck_pc' = "char_loop"
    /\ UNCHANGED <<ck_branch, TIKTOKEN_AVAILABLE, tk_raises, text, max_chunk_size, overlap,
                   encoded_tokens, ck_result>>
    /\ UNCHANGED <<synthVars, cleanVars, extractVars, upvoteVars, pipeVars>>

ChunkNext ==
    \/ ChunkEntry
    \/ ChunkEncode
    \/ ChunkTokenLoop
    \/ ChunkTokenBody
    \/ ChunkTiktokenRaises
    \/ ChunkFallback
    \/ ChunkCharLoop
    \/ ChunkCharBody

(***************************************************************************)
(* synthesize_text_with_llm (llm_service.py:119-176) and get_openai_client *)
(* (llm_service.py:30-46).  The OpenAI service is the environment: a       *)
(* request either raises or answers with a response object.                *)
(***************************************************************************)
MaxSynthChunks == 3
ChunkContents == {"x", "y"}
ChunkLists == UNION {[1..n -> ChunkContents] : n \in 0..MaxSynthChunks}

DEFAULT_LLM_MODEL == "gpt-4-turbo-preview"
DEFAULT_LLM_MAX_TOKENS == 4000

\* line 130: `not chunks`.  NotChunksNever is the function without the test;
\* C20 tells them apart.
NotChunksNever(list) == FALSE
NotChunks(list) == Len(list) = 0

\* lines 136-140: str.join of the numbered chunks
chunk_separator == "\n\n---\n\n"
numbered_chunks(list) ==
    [chunk_index \in 1..Len(list) |-> <<"Chunk ", ToString(chunk_index), ":\n", list[chunk_index]>>]
RECURSIVE Join(_, _)
Join(parts, separator) ==
    IF parts = <<>> THEN <<>>
    ELSE IF Len(parts) = 1 THEN Head(parts)
    ELSE Head(parts) \o <<separator>> \o Join(Tail(parts), separator)

\* lines 159-167: the request handed to chat.completions.create
CompletionRequest(prompt) ==
    [model |-> DEFAULT_LLM_MODEL, max_tokens |-> DEFAULT_LLM_MAX_TOKENS, prompt |-> prompt]

\* The exceptions the try block can meet, by their str().
MissingKeyError == "OPENAI_API_KEY environment variable not set"
ClientError == "Client.__init__() got an unexpected keyword argument 'proxy'"
ConnectionError == "Connection error."
IndexError == "list index out of range"
AttributeError == "'NoneType' object has no attribute 'total_tokens'"
ApiErrors == {ConnectionError}

\* line 175: f"Error calling LLM: {str(api_error)}"
ErrorCallingLLM(error) ==
    CASE error = MissingKeyError -> "Error calling LLM: OPENAI_API_KEY environment variable not set"
      [] error = ClientError ->
            "Error calling LLM: Client.__init__() got an unexpected keyword argument 'proxy'"
      [] error = ConnectionError -> "Error calling LLM: Connection error."
      [] error = IndexError -> "Error calling LLM: list index out of range"
      [] error = AttributeError ->
            "Error calling LLM: 'NoneType' object has no attribute 'total_tokens'"

\* The response objects of the API: the number of choices, the content of the
\* first one, and the usage attribute: missing, None, or an object whose
\* total_tokens is the number given.
ApiResponses ==
    [choices : {0, 1},
     content : {"Combined notes.", "", None},
     usage : {"missing", "None", "present"},
     total_tokens : {42}]

\* api_response before line 159 binds it.
NoResponse == [choices |-> 0, content |-> None, usage |-> "missing", total_tokens |-> 0]

\* The tuple the function returns.
SynthResult(synthesized_text, error_message, total_tokens) ==
    [synthesized_text |-> synthesized_text, error_message |-> error_message,
     total_tokens |-> total_tokens]

SynthInit ==
    /\ OPENAI_API_KEY \in BOOLEAN
    /\ chunks \in ChunkLists
    /\ sy_pc = "start"
    /\ combined_chunks_text = <<>>
    /\ api_response = NoResponse
    /\ api_error = None
    /\ openai_clients = 0
    /\ completion_requests = <<>>
    /\ sy_result = SynthResult(None, None, 0)

\* lines 130-131
SynthEntry ==
    /\ sy_pc = "start"
    /\ IF NotChunks(chunks)
       THEN /\ sy_result' = SynthResult(None, "No text chunks provided", 0)
            /\ sy_pc' = "returned"
       ELSE /\ sy_pc' = "client"
            /\ UNCHANGED sy_result
    /\ UNCHANGED <<OPENAI_API_KEY, chunks, combined_chunks_text, api_response, api_error,
                   openai_clients, completion_requests>>
    /\ UNCHANGED <<chunkVars, cleanVars, extractVars, upvoteVars, pipeVars>>

\* line 134 and get_openai_client, lines 40-46: without the key it raises
\* ValueError; with it the construction of the httpx client or of the OpenAI
\* client succeeds or raises.
SynthGetClient ==
    /\ sy_pc = "client"
    /\ IF ~OPENAI_API_KEY
       THEN /\ api_error' = MissingKeyError
            /\ sy_pc' = "except"
            /\ UNCHANGED openai_clients
       ELSE \/ /\ openai_clients' = openai_clients + 1
               /\ sy_pc' = "prompt"
               /\ UNCHANGED api_error
            \/ /\ api_error' = ClientError
               /\ sy_pc' = "except"
               /\ UNCHANGED openai_clients
    /\ UNCHANGED <<OPENAI_API_KEY, chunks, combined_chunks_text, api_response,
                   completion_requests, sy_result>>
    /\ UNCHANGED <<chunkVars, cleanVars, extractVars, upvoteVars, pipeVars>>

\* lines 136-157: the prompt
SynthPrompt ==
    /\ sy_pc = "prompt"
    /\ combined_chunks_text' = Join(numbered_chunks(chunks), chunk_separator)
    /\ sy_pc' = "request"
    /\ UNCHANGED <<OPENAI_API_KEY, chunks, api_response, api_error, openai_clients,
                   completion_requests, sy_result>>
    /\ UNCHANGED <<chunkVars, cleanVars, extractVars, upvoteVars, pipeVars>>

\* lines 159-172: the one call of chat.completions.create and the reading of
\* its response.  choices[0] raises IndexError on an empty list; hasattr is
\* true for a usage attribute that is None, and None.total_tokens raises
\* AttributeError.
SynthRequest ==
    /\ sy_pc = "request"
    /\ completion_requests' =
          Append(completion_requests, CompletionRequest(combined_chunks_text))
    /\ \/ \E error \in ApiErrors :
             /\ api_error' = error
             /\ sy_pc' = "except"
             /\ UNCHANGED <<api_response, sy_result>>
       \/ \E response \in ApiResponses :
             /\ api_response' = response
             /\ IF response.choices = 0
                THEN /\ api_error' = IndexError
                     /\ sy_pc' = "except"
                     /\ UNCHANGED sy_result
                ELSE IF response.usage = "None"
                THEN /\ api_error' = AttributeError
                     /\ sy_pc' = "except"
                     /\ UNCHANGED sy_result
                ELSE /\ sy_result' =
                           SynthResult(response.content, None,
                                       IF response.usage = "present"
                                       THEN response.total_tokens ELSE 0)
                     /\ sy_pc' = "returned"
                     /\ UNCHANGED api_error
    /\ UNCHANGED <<OPENAI_API_KEY, chunks, combined_chunks_text, openai_clients>>
    /\ UNCHANGED <<chunkVars, cleanVars, extractVars, upvoteVars, pipeVars>>

\* lines 174-176
SynthExcept ==
    /\ sy_pc = "except"
    /\ sy_result' = SynthResult(None, ErrorCallingLLM(api_error), 0)
    /\ sy_pc' = "returned"
    /\ UNCHANGED <<OPENAI_API_KEY, chunks, combined_chunks_text, api_response, api_error,
                   openai_clients, completion_requests>>
    /\ UNCHANGED <<chunkVars, cleanVars, extractVars, upvoteVars, pipeVars>>

SynthNext ==
    \/ SynthEntry
    \/ SynthGetClient
    \/ SynthPrompt
    \/ SynthRequest
    \/ SynthExcept

\* synthesize_text_with_llm is not running during a run of the chunker or of
\* the pipeline model, which draws the synthesizer's result from SynthesisResults.
SynthOff ==
    /\ OPENAI_API_KEY = TRUE
    /\ chunks = <<>>
    /\ sy_pc = "off"
    /\ combined_chunks_text = <<>>
    /\ api_response = NoResponse
    /\ api_error = None
    /\ openai_clients = 0
    /\ completion_requests = <<>>
    /\ sy_result = SynthResult(None, None, 0)

(***************************************************************************)
(* clean_text (text_extractor.py:89-113).  A text is a sequence of         *)
(* one-character strings; re.sub, str.split, str.strip and str.join are    *)
(* computed as Python computes them.                                       *)
(***************************************************************************)
MaxCleanLen == 5
CleanAlphabet == {"a", " ", "\t", "\n"}
CleanTexts == UNION {[1..n -> CleanAlphabet] : n \in 0..MaxCleanLen}

\* The text of the normalizer's documented example: "a\n\n\n\nb   c".
ExampleText == <<"a", "\n", "\n", "\n", "\n", "b", " ", " ", " ", "c">>

\* The number of consecutive characters c in t from index i on.
RECURSIVE RunLength(_, _, _)
RunLength(t, i, c) ==
    IF i > Len(t) \/ t[i] # c THEN 0 ELSE 1 + RunLength(t, i + 1, c)

\* re.sub(r'c{least,}', replacement, t): every maximal run of at least `least`
\* characters c is replaced, left to right (lines 105 and 107).
RECURSIVE ReSub(_, _, _, _)
ReSub(c, least, replacement, t) ==
    IF t = <<>> THEN <<>>
    ELSE LET run == RunLength(t, 1, c)
         IN  IF run >= least
             THEN replacement \o ReSub(c, least, replacement, SubSeq(t, run + 1, Len(t)))
             ELSE IF run > 0
             THEN SubSeq(t, 1, run) \o ReSub(c, least, replacement, SubSeq(t, run + 1, Len(t)))
             ELSE <<Head(t)>> \o ReSub(c, least, replacement, Tail(t))

\* t.split(separator), line 109
RECURSIVE Split(_, _)
Split(t, separator) ==
    IF \A i \in 1..Len(t) : t[i] # separator THEN <<t>>
    ELSE LET first == CHOOSE i \in 1..Len(t) :
                         /\ t[i] = separator
                         /\ \A j \in 1..(i - 1) : t[j] # separator
         IN  <<SubSeq(t, 1, first - 1)>> \o Split(SubSeq(t, first + 1, Len(t)), separator)

\* line.strip(), line 109: the whitespace of the alphabet is removed at both
\* ends.  StripOne removes one character at most from each end; C23 tells
\* them apart.
Whitespace == {" ", "\t", "\n"}
RECURSIVE LStrip(_)
LStrip(line) ==
    IF line # <<>> /\ Head(line) \in Whitespace THEN LStrip(Tail(line)) ELSE line
RECURSIVE RStrip(_)
RStrip(line) ==
    IF line # <<>> /\ line[Len(line)] \in Whitespace
    THEN RStrip(SubSeq(line, 1, Len(line) - 1)) ELSE line
StripOne(line) ==
    LET left == IF line # <<>> /\ Head(line) \in Whitespace THEN Tail(line) ELSE line
    IN  IF left # <<>> /\ left[Len(left)] \in Whitespace
        THEN SubSeq(left, 1, Len(left) - 1) ELSE left
Strip(line) == RStrip(LStrip(line))

\* line 111: [line for line in lines if line].  KeepAllLines keeps the empty
\* lines too; C24 tells them apart.
KeepAllLines(lines) == lines
DropEmptyLines(lines) == SelectSeq(lines, LAMBDA line : line # <<>>)

CleanInit ==
    /\ cl_arg_none \in BOOLEAN
    /\ cl_arg \in CleanTexts \cup {ExampleText}
    /\ (cl_arg_none => cl_arg = <<>>)
    /\ cl_text = cl_arg
    /\ cl_lines = <<>>
    /\ cl_pc = "start"
    /\ cl_result = <<>>
    /\ cl_call = 1

\* lines 99-100: `if not text`
CleanEntry ==
    /\ cl_pc = "start"
    /\ IF cl_arg_none \/ cl_text = <<>>
       THEN /\ cl_result' = <<>>
            /\ cl_pc' = "returned"
       ELSE /\ cl_pc' = "newlines"
            /\ UNCHANGED cl_result
    /\ UNCHANGED <<cl_arg_none, cl_arg, cl_text, cl_lines, cl_call>>
    /\ UNCHANGED <<chunkVars, synthVars, extractVars, upvoteVars, pipeVars>>

\* line 105
CleanNewlines ==
    /\ cl_pc = "newlines"
    /\ cl_text' = ReSub("\n", 3, <<"\n", "\n">>, cl_text)
    /\ cl_pc' = "spaces"
    /\ UNCHANGED <<cl_arg_none, cl_arg, cl_lines, cl_result, cl_call>>
    /\ UNCHANGED <<chunkVars, synthVars, extractVars, upvoteVars, pipeVars>>

\* line 107
CleanSpaces ==
    /\ cl_pc = "spaces"
    /\ cl_text' = ReSub(" ", 2, <<" ">>, cl_text)
    /\ cl_pc' = "lines"
    /\ UNCHANGED <<cl_arg_none, cl_arg, cl_lines, cl_result, cl_call>>
    /\ UNCHANGED <<chunkVars, synthVars, extractVars, upvoteVars, pipeVars>>

\* line 109
CleanStripLines ==
    /\ cl_pc = "lines"
    /\ cl_lines' = [i \in 1..Len(Split(cl_text, "\n")) |-> Strip(Split(cl_text, "\n")[i])]
    /\ cl_pc' = "drop"
    /\ UNCHANGED <<cl_arg_none, cl_arg, cl_text, cl_result, cl_call>>
    /\ UNCHANGED <<chunkVars, synthVars, extractVars, upvoteVars, pipeVars>>

\* line 111
CleanDropEmpty ==
    /\ cl_pc = "drop"
    /\ cl_lines' = DropEmptyLines(cl_lines)
    /\ cl_pc' = "join"
    /\ UNCHANGED <<cl_arg_none, cl_arg, cl_text, cl_result, cl_call>>
    /\ UNCHANGED <<chunkVars, synthVars, extractVars, upvoteVars, pipeVars>>

\* line 113
CleanJoin ==
    /\ cl_pc = "join"
    /\ cl_result' = Join(cl_lines, "\n")
    /\ cl_pc' = "returned"
    /\ UNCHANGED <<cl_arg_none, cl_arg, cl_text, cl_lines, cl_call>>
    /\ UNCHANGED <<chunkVars, synthVars, extractVars, upvoteVars, pipeVars>>

\* The caller hands the result to clean_text once more.
CleanAgain ==
    /\ cl_pc = "returned"
    /\ cl_call = 1
    /\ cl_arg_none' = FALSE
    /\ cl_arg' = cl_result
    /\ cl_text' = cl_result
    /\ cl_lines' = <<>>
    /\ cl_pc' = "start"
    /\ cl_call' = 2
    /\ UNCHANGED cl_result
    /\ UNCHANGED <<chunkVars, synthVars, extractVars, upvoteVars, pipeVars>>

CleanNext ==
    \/ CleanEntry
    \/ CleanNewlines
    \/ CleanSpaces
    \/ CleanStripLines
    \/ CleanDropEmpty
    \/ CleanJoin
    \/ CleanAgain

\* clean_text's own run is not part of a run of the other functions.
CleanOff ==
    /\ cl_arg_none = FALSE
    /\ cl_arg = <<>>
    /\ cl_text = <<>>
    /\ cl_lines = <<>>
    /\ cl_pc = "off"
    /\ cl_result = <<>>
    /\ cl_call = 0

(***************************************************************************)
(* extract_text_from_file and its helpers (text_extractor.py:10-86).  The  *)
(* file system and the format libraries are the environment.  An Optional  *)
(* value is a sequence of length at most one: <<>> is None, <<v>> is v.    *)
(* The except clause at lines 35-36 has no action: each helper catches     *)
(* every Exception itself, so nothing reaches it.                          *)
(***************************************************************************)
MaxPieces == 2
Extensions == {".pdf", ".PDF", ".docx", ".txt", ".png", ""}
Pieces == {<<>>, <<" ">>, <<"p">>}
PieceLists == UNION {[1..n -> Pieces] : n \in 0..MaxPieces}
Faults == {"none", "raises", "decode", "decode_raises"}

\* line 24: str.lower on the extension
Lower(extension) == IF extension = ".PDF" THEN ".pdf" ELSE extension

\* lines 31-34: the extension extract_text_from_txt is called for.  ReadAsTxtAny
\* reads every other file as text; C26 tells them apart.
ReadAsTxtAny(file_ext) == TRUE
ReadAsTxt(file_ext) == file_ext = ".txt"

\* separator.join(parts) for texts, lines 50 and 65
RECURSIVE JoinTexts(_, _)
JoinTexts(parts, separator) ==
    IF parts = <<>> THEN <<>>
    ELSE IF Len(parts) = 1 THEN Head(parts)
    ELSE Head(parts) \o separator \o JoinTexts(Tail(parts), separator)

\* str(error) of the exception the environment raises
PermissionError == "[Errno 13] Permission denied"

\* The pair a function of the module returns.
Extracted(extracted_text) == [extracted_text |-> <<extracted_text>>, error_message |-> <<>>]
ExtractionError(prefix, detail) ==
    [extracted_text |-> <<>>, error_message |-> <<<<prefix, detail>>>>]

ExtractInit ==
    /\ file_path \in {"uploads/a"} \X Extensions
    /\ ex_exists \in BOOLEAN
    /\ ex_pieces \in PieceLists
    /\ ex_fault \in Faults
    /\ ex_pc = "start"
    /\ ex_result = [extracted_text |-> <<>>, error_message |-> <<>>]

\* lines 21-22
ExtractExists ==
    /\ ex_pc = "start"
    /\ IF ~ex_exists
       THEN /\ ex_result' = ExtractionError("File not found: ", file_path)
            /\ ex_pc' = "returned"
       ELSE /\ ex_pc' = "dispatch"
            /\ UNCHANGED ex_result
    /\ UNCHANGED <<file_path, ex_exists, ex_pieces, ex_fault>>
    /\ UNCHANGED <<chunkVars, synthVars, cleanVars, upvoteVars, pipeVars>>

\* lines 24-34: os.path.splitext, lower, and the choice of the helper
ExtractDispatch ==
    /\ ex_pc = "dispatch"
    /\ LET file_ext == Lower(file_path[2])
       IN  IF file_ext = ".pdf" THEN ex_pc' = "pdf" /\ UNCHANGED ex_result
           ELSE IF file_ext = ".docx" THEN ex_pc' = "docx" /\ UNCHANGED ex_result
           ELSE IF ReadAsTxt(file_ext) THEN ex_pc' = "txt" /\ UNCHANGED ex_result
           ELSE /\ ex_result' = ExtractionError("Unsupported file type: ", file_ext)
                /\ ex_pc' = "returned"
    /\ UNCHANGED <<file_path, ex_exists, ex_pieces, ex_fault>>
    /\ UNCHANGED <<chunkVars, synthVars, cleanVars, upvoteVars, pipeVars>>

\* extract_text_from_pdf, lines 39-53: the pages whose text is non-empty,
\* joined by a blank line; any exception becomes an error
ExtractPdf ==
    /\ ex_pc = "pdf"
    /\ ex_result' =
          IF ex_fault = "none"
          THEN Extracted(JoinTexts(SelectSeq(ex_pieces, LAMBDA piece : piece # <<>>),
                                   <<"\n", "\n">>))
          ELSE ExtractionError("Error reading PDF: ", PermissionError)
    /\ ex_pc' = "returned"
    /\ UNCHANGED <<file_path, ex_exists, ex_pieces, ex_fault>>
    /\ UNCHANGED <<chunkVars, synthVars, cleanVars, upvoteVars, pipeVars>>

\* extract_text_from_docx, lines 56-68: the paragraphs that are not blank
ExtractDocx ==
    /\ ex_pc = "docx"
    /\ ex_result' =
          IF ex_fault = "none"
          THEN Extracted(JoinTexts(SelectSeq(ex_pieces, LAMBDA piece : Strip(piece) # <<>>),
                                   <<"\n", "\n">>))
          ELSE ExtractionError("Error reading DOCX: ", PermissionError)
    /\ ex_pc' = "returned"
    /\ UNCHANGED <<file_path, ex_exists, ex_pieces, ex_fault>>
    /\ UNCHANGED <<chunkVars, synthVars, cleanVars, upvoteVars, pipeVars>>

\* extract_text_from_txt, lines 73-77 and 85-86: the read as utf-8
ExtractTxt ==
    /\ ex_pc = "txt"
    /\ IF ex_fault = "none"
       THEN /\ ex_result' = Extracted(JoinTexts(ex_pieces, <<"\n">>))
            /\ ex_pc' = "returned"
       ELSE IF ex_fault = "raises"
       THEN /\ ex_result' = ExtractionError("Error reading TXT file: ", PermissionError)
            /\ ex_pc' = "returned"
       ELSE /\ ex_pc' = "txt_fallback"
            /\ UNCHANGED ex_result
    /\ UNCHANGED <<file_path, ex_exists, ex_pieces, ex_fault>>
    /\ UNCHANGED <<chunkVars, synthVars, cleanVars, upvoteVars, pipeVars>>

\* lines 78-84: the second read, as latin-1, after UnicodeDecodeError
ExtractTxtFallback ==
    /\ ex_pc = "txt_fallback"
    /\ ex_result' =
          IF ex_fault = "decode"
          THEN Extracted(JoinTexts(ex_pieces, <<"\n">>))
          ELSE ExtractionError("Error reading TXT file: ", PermissionError)
    /\ ex_pc' = "returned"
    /\ UNCHANGED <<file_path, ex_exists, ex_pieces, ex_fault>>
    /\ UNCHANGED <<chunkVars, synthVars, cleanVars, upvoteVars, pipeVars>>

ExtractNext ==
    \/ ExtractExists
    \/ ExtractDispatch
    \/ ExtractPdf
    \/ ExtractDocx
    \/ ExtractTxt
    \/ ExtractTxtFallback

\* extract_text_from_file's own run is not part of a run of the other functions.
ExtractOff ==
    /\ file_path = <<"", "">>
    /\ ex_exists = FALSE
    /\ ex_pieces = <<>>
    /\ ex_fault = "none"
    /\ ex_pc = "off"
    /\ ex_result = [extracted_text |-> <<>>, error_message |-> <<>>]

\* No upvote request is served during a run of the other functions.
UpvoteOff ==
    /\ upvotes = <<>>
    /\ upvote_count = <<>>
    /\ up = <<>>
    /\ up_calls = 0

\* The pipeline is not running during a chunker run.
PipeOff ==
    /\ meta_documents = <<>>
    /\ inv = <<>>
    /\ calls = 0

ChunkSpecInit == ChunkInit /\ SynthOff /\ CleanOff /\ ExtractOff /\ UpvoteOff /\ PipeOff
ChunkSpec == ChunkSpecInit /\ [][ChunkNext]_vars
\* chunk_text is a sequential function: a call that can take a step takes it.
ChunkFairSpec == ChunkSpec /\ WF_vars(ChunkNext)

(***************************************************************************)
(* Properties of chunk_text (ChunkSpec, ChunkFairSpec).                    *)
(***************************************************************************)
\* The sequence the running branch slides its window over, and the window's width.
WindowedSequence == IF ck_branch = "tiktoken" THEN encoded_tokens ELSE text
WindowWidth ==
    IF ck_branch = "tiktoken" THEN max_chunk_size
    ELSE max_chunk_size * CHARACTERS_PER_TOKEN_ESTIMATE

\* The text is within one window by the count of the branch that decides:
\* tokens on the tiktoken branch, characters against 4 * max_chunk_size on the
\* character branch.  The empty text is within one window by either count.
WithinOneWindow ==
    \/ text = <<>>
    \/ ck_branch = "tiktoken" /\ Len(encode(text)) <= max_chunk_size
    \/ ck_branch = "characters"
         /\ Len(text) <= max_chunk_size * CHARACTERS_PER_TOKEN_ESTIMATE

\* The text exceeds one window on every branch the call can take.
LongerThanOneWindow ==
    /\ (TIKTOKEN_AVAILABLE /\ ~tk_raises) => Len(encode(text)) > max_chunk_size
    /\ (~TIKTOKEN_AVAILABLE \/ tk_raises) =>
           Len(text) > max_chunk_size * CHARACTERS_PER_TOKEN_ESTIMATE
    /\ tk_raises => Len(encode(text)) > max_chunk_size

\* C2 (as claimed): every call of chunk_text with 0 <= overlap < max_chunk_size
\* terminates, i.e. eventually returns its list of chunks.
C2_ChunkTextTerminates ==
    (ck_pc = "start" /\ overlap < max_chunk_size) ~> (ck_pc = "returned")

\* C8 (as claimed): a text within one window, the empty text included, is
\* returned as exactly one segment equal to the text.
C8_SingleSegmentAlways ==
    (ck_pc = "returned" /\ WithinOneWindow) => ck_result = <<text>>

\* C8 (amended): a non-empty text within one window is returned as exactly one
\* segment equal to the text; the empty text is returned as the empty list.
C8_SingleSegmentNonEmpty ==
    ck_pc = "returned" =>
        /\ (text # <<>> /\ WithinOneWindow) => ck_result = <<text>>
        /\ text = <<>> => ck_result = <<>>

C8_Witness ==
    /\ ck_pc = "returned"
    /\ Len(text) >= 2
    /\ WithinOneWindow
    /\ ck_result = <<text>>

\* every index of the windowed sequence lies inside some appended window
Covered(n) ==
    \A k \in 0..(n - 1) :
        \E i \in DOMAIN windows : windows[i][1] <= k /\ k < windows[i][2]

\* C9: for overlap < max_chunk_size the windows leave no gap: the first starts
\* at index 0, each later one starts inside the sequence no later than where
\* its predecessor ended, chunk i holds exactly the tokens (characters) of
\* window i, and once a window has reached the end of the sequence (so in
\* every returned list) every index lies in some window; a text returned
\* without windowing is returned whole.
C9_NoGapCoverage ==
    overlap < max_chunk_size =>
        /\ (ck_pc \in {"token_loop", "token_body", "char_loop", "char_body", "returned"}
               /\ windows # <<>>) =>
              /\ Len(text_chunks) = Len(windows)
              /\ windows[1][1] = 0
              /\ \A i \in 1..(Len(windows) - 1) :
                    /\ windows[i + 1][1] <= windows[i][2]
                    /\ windows[i + 1][1] >= 0
              /\ \A i \in DOMAIN windows :
                    LET part == SubSeq(WindowedSequence, windows[i][1] + 1, windows[i][2])
                    IN  text_chunks[i] =
                            (IF ck_branch = "tiktoken" THEN decode(part) ELSE part)
              /\ windows[Len(windows)][2] = Len(WindowedSequence) =>
                    Covered(Len(WindowedSequence))
        /\ (ck_pc = "returned" /\ windows # <<>>) =>
              /\ ck_result = text_chunks
              /\ \E i \in DOMAIN windows : windows[i][2] = Len(WindowedSequence)
              /\ Covered(Len(WindowedSequence))
        /\ (ck_pc = "returned" /\ windows = <<>> /\ text # <<>>) => ck_result = <<text>>

C9_Witness ==
    /\ ck_pc = "returned"
    /\ overlap < max_chunk_size
    /\ Len(windows) >= 3
    /\ ck_result = text_chunks
    /\ Covered(Len(WindowedSequence))

\* C10 (as claimed): a call with overlap >= max_chunk_size on a text longer
\* than one window ends in a configuration error.
C10_MisconfigurationIsFatal ==
    (ck_pc = "start" /\ overlap >= max_chunk_size /\ LongerThanOneWindow)
        ~> (ck_pc = "configuration_error")

(***************************************************************************)
(* The processing pipeline, processing_pipeline.py.                        *)
(*                                                                         *)
(* Every request runs process_topic_files or process_single_file on its    *)
(* own thread with its own database session (app.py:270 starts the         *)
(* threaded development server).  A thread's step is one block of the      *)
(* function between two accesses to the database; a commit is atomic.      *)
(***************************************************************************)
MaxCalls == 2
\* The entries of text_chunks that a pipeline run keeps.  With
\* DEFAULT_CHUNK_OVERLAP_TOKENS > 0 the start index stops advancing after the
\* window that reaches the end, so the iterations after it repeat it without end.
MaxLoopIterations == 2

\* Fixture: two request threads, whose invocations overlap in every way, and
\* the rows of tables topics and notes (read-only for the pipeline): topic 1
\* has two notes, topic 2 has none, topic 3 does not exist.
Threads == {1, 2}
TopicTable == {1, 2}
NoteTable ==
    <<[topic_id |-> 1, original_filename |-> "a.txt"],
      [topic_id |-> 1, original_filename |-> "b.txt"]>>
RequestedTopicIds == {1, 2, 3}
RequestedNoteIds == {1, 2, 3}

\* Note.query.filter_by(topic_id=topic_id).all(), as note ids in table order.
\* AllNotes is the query without its filter; C15 tells them apart.
AllNotes(t) == [n \in 1..Len(NoteTable) |-> n]
RECURSIVE NotesOfTopicUpTo(_, _)
NotesOfTopicUpTo(t, n) ==
    IF n = 0 THEN <<>>
    ELSE NotesOfTopicUpTo(t, n - 1)
            \o (IF NoteTable[n].topic_id = t THEN <<n>> ELSE <<>>)
NotesOfTopic(t) == NotesOfTopicUpTo(t, Len(NoteTable))

\* json.dumps(list): the JSON text of a list of strings, kept as its brackets
\* around the items; '[]' is the text of the empty list.
JsonDumps(list) == <<"[">> \o list \o <<"]">>

\* MetaDocument(topic_id=..., processing_status='processing',
\*              synthesized_content='', source_filenames='[]')
\* with the column defaults of models.py:216-219
NewMetaDocument(t) ==
    [topic_id |-> t,
     note_id |-> None,
     synthesized_content |-> "",
     source_filenames |-> JsonDumps(<<>>),
     chunk_count |-> 0,
     token_count |-> 0,
     processing_status |-> "processing",
     error_message |-> None]

Columns == DOMAIN NewMetaDocument(0)

\* What db.session.commit() writes for a persistent object.  SQLAlchemy's
\* unit of work emits an UPDATE of the assigned attributes whose value differs
\* from the value the session loaded; an object whose attributes are expired
\* (after a commit or a rollback of the session) has no loaded values, and
\* every assigned attribute is written.
FlushedRow(row, assigned, loaded, expired) ==
    [c \in Columns |->
        IF c \in DOMAIN assigned /\ (expired \/ assigned[c] # loaded[c])
        THEN assigned[c]
        ELSE row[c]]

\* lines 143-144, 169-170, 195-196.  FailedStatusOnly is the assignment of
\* the status without the one of the message; C14 tells them apart.
\* FailedMessageOnly is the assignment of the message without the one of the
\* status; C16 tells them apart.
FailedStatusOnly(message) == [processing_status |-> "failed"]
FailedMessageOnly(message) == [error_message |-> message]
FailedFields(message) ==
    [processing_status |-> "failed", error_message |-> message]

\* lines 175-180
CompletedFields(content, filenames, count, tokens) ==
    [synthesized_content |-> content,
     source_filenames |-> JsonDumps(filenames),
     chunk_count |-> count,
     token_count |-> tokens,
     processing_status |-> "completed",
     error_message |-> None]

\* The outcomes of extract_text_from_file followed by clean_text for one note
\* (lines 79-88): an extraction error, text that is empty or cleans to empty,
\* usable text.
ExtractionOutcomes == {"error", "empty", "text"}

RECURSIVE OutcomeLists(_)
OutcomeLists(n) ==
    IF n = 0 THEN {<<>>}
    ELSE {Append(l, o) : l \in OutcomeLists(n - 1), o \in ExtractionOutcomes}

\* source_filenames of _extract_texts_from_notes (lines 72-90): the original
\* filenames of the notes that gave usable text, in the order of the notes.
\* AllFilenames is the loop without the two `continue`/`if` tests of lines
\* 80-86: every note's name is recorded; C11 tells them apart.
AllFilenames(notes, outcomes) ==
    [i \in 1..Len(notes) |-> NoteTable[notes[i]].original_filename]
RECURSIVE UsedFilenames(_, _)
UsedFilenames(notes, outcomes) ==
    IF notes = <<>> THEN <<>>
    ELSE (IF outcomes[1] = "text"
          THEN <<NoteTable[notes[1]].original_filename>> ELSE <<>>)
            \o UsedFilenames(Tail(notes), Tail(outcomes))

\* The window and the overlap chunk_text runs with in the pipeline (lines
\* 156-160), in the units of the branch that the module flag selects: tokens,
\* or characters at CHARACTERS_PER_TOKEN_ESTIMATE per token.
PipelineWindow ==
    IF TIKTOKEN_AVAILABLE THEN DEFAULT_MAX_CHUNK_SIZE_TOKENS
    ELSE DEFAULT_MAX_CHUNK_SIZE_TOKENS * CHARACTERS_PER_TOKEN_ESTIMATE
PipelineOverlap ==
    IF TIKTOKEN_AVAILABLE THEN DEFAULT_CHUNK_OVERLAP_TOKENS
    ELSE DEFAULT_CHUNK_OVERLAP_TOKENS * CHARACTERS_PER_TOKEN_ESTIMATE

\* Input: the size of combined_text in those units: a text that exactly fills
\* one window, and a text one unit longer.  The text holds "Source: " and a
\* non-empty cleaned text for every file used (lines 149-153), so it is never
\* empty; CombinedTextSizesWithEmpty is the join without that, and C29 tells
\* them apart.
CombinedTextSizesWithEmpty == {0, PipelineWindow, PipelineWindow + 1}
CombinedTextSizes == {PipelineWindow, PipelineWindow + 1}

\* The results of synthesize_text_with_llm (llm_service.py:130-176):
\* (text, None, tokens) with the text the API returned, which may be empty or
\* absent, or (None, error, 0).  phase tells how far the call came: "no client"
\* when get_openai_client raised at line 134, "failed" when the request at
\* lines 159-167 (or the reading of its response) raised, "answered" otherwise;
\* requests is the number of completion requests the call sent.
SynthesisResults ==
    {[text |-> "Combined notes.", error |-> None, tokens |-> 42,
      phase |-> "answered", requests |-> 1],
     [text |-> "", error |-> None, tokens |-> 42, phase |-> "answered", requests |-> 1],
     [text |-> None, error |-> None, tokens |-> 42, phase |-> "answered", requests |-> 1],
     [text |-> None, error |-> "Error calling LLM: upstream failure", tokens |-> 0,
      phase |-> "failed", requests |-> 1],
     [text |-> None,
      error |-> "Error calling LLM: OPENAI_API_KEY environment variable not set",
      tokens |-> 0, phase |-> "no client", requests |-> 0]}

\* line 131: the result for an empty chunk list
NoChunksResult ==
    [text |-> None, error |-> "No text chunks provided", tokens |-> 0,
     phase |-> "skipped", requests |-> 0]

\* The completion requests one call of synthesize_text_with_llm adds to those
\* of the invocation.  RequestsRetried sends a failed request a second time;
\* C21 tells them apart.
RequestsRetried(r) == IF r.phase = "failed" THEN r.requests + 1 ELSE r.requests
RequestsIssued(r) == r.requests

\* The dict an invocation returns: 'status', 'message' and, on success,
\* 'meta_document_id', 'chunk_count', 'token_count'.  status "raised" stands
\* for an exception that left the function instead of a dict.
NoResult ==
    [status |-> "none", message |-> <<>>, meta_document_id |-> 0,
     chunk_count |-> 0, token_count |-> 0]

ErrorResult(message) ==
    [status |-> "error", message |-> message, meta_document_id |-> 0,
     chunk_count |-> 0, token_count |-> 0]

\* lines 184-190
SuccessResult(id, count, tokens) ==
    [status |-> "success", message |-> <<"Meta document created successfully">>,
     meta_document_id |-> id, chunk_count |-> count, token_count |-> tokens]

\* an exception that propagates to the caller
Propagated(error) ==
    [status |-> "raised", message |-> <<error>>, meta_document_id |-> 0,
     chunk_count |-> 0, token_count |-> 0]

\* The locals of one invocation.  meta_document = 0: the name is unbound or
\* bound to an object that has no row.
IdleInvocation ==
    [pc |-> "idle",
     entry |-> "none",
     topic_id |-> 0,
     bound |-> FALSE,
     meta_document |-> 0,
     created |-> FALSE,
     loaded |-> NewMetaDocument(0),
     expired |-> FALSE,
     outcomes |-> <<>>,
     source_filenames |-> <<>>,
     combined_size |-> 0,
     chunk_start_index |-> 0,
     text_chunks |-> <<>>,
     api_requests |-> 0,
     llm_phase |-> "none",
     topic_raised |-> FALSE,
     processing_error |-> None,
     result |-> NoResult]

PipeInit ==
    /\ meta_documents = <<>>
    /\ inv = [p \in Threads |-> IdleInvocation]
    /\ calls = 0

\* chunk_text's own run is not part of a pipeline behaviour; the pipeline reads
\* only the module flag.
ChunkOff ==
    /\ TIKTOKEN_AVAILABLE \in BOOLEAN
    /\ tk_raises = FALSE
    /\ text = <<>>
    /\ max_chunk_size = DEFAULT_MAX_CHUNK_SIZE_TOKENS
    /\ overlap = DEFAULT_CHUNK_OVERLAP_TOKENS
    /\ ck_pc = "off"
    /\ encoded_tokens = <<>>
    /\ text_chunks = <<>>
    /\ chunk_start_index = 0
    /\ windows = <<>>
    /\ ck_result = <<>>
    /\ ck_branch = "none"

Terminal == {"completed", "failed"}

\* str(processing_error) of the exceptions the database layer raises
DatabaseError == "OperationalError: database is locked"
NotNullError == "IntegrityError: NOT NULL constraint failed"

\* The rows after the session of p commits `assigned` on its object.
Committed(p, assigned) ==
    [meta_documents EXCEPT ![inv[p].meta_document] =
        FlushedRow(@, assigned, inv[p].loaded, inv[p].expired)]

\* `return result` (or the propagation of an exception): the caller holds the
\* result; the locals of the invocation are gone.  entry and topic_id stay as
\* the record of what the caller asked for.
Returning(p, result, requests) ==
    [inv EXCEPT ![p] = [IdleInvocation EXCEPT !.pc = "return", !.result = result,
                                              !.entry = inv[p].entry,
                                              !.topic_id = inv[p].topic_id,
                                              !.llm_phase = inv[p].llm_phase,
                                              !.api_requests = requests]]

\* An exception inside the try block of process_topic_files: control moves to
\* the handler at line 192 with the names bound so far.  A failed commit has
\* rolled the session back, which expires the session's objects.
Raised(p, error, requests) ==
    [inv EXCEPT ![p] = [IdleInvocation EXCEPT
                           !.pc = "handler",
                           !.entry = inv[p].entry,
                           !.topic_id = inv[p].topic_id,
                           !.bound = inv[p].bound,
                           !.meta_document = inv[p].meta_document,
                           !.expired = TRUE,
                           !.api_requests = requests,
                           !.llm_phase = inv[p].llm_phase,
                           !.processing_error = error]]

\* lines 113-120: the lookups of the topic and of its notes
LookupTopic(p, t, entry, db_ok) ==
    LET fresh == [IdleInvocation EXCEPT !.entry = entry, !.topic_id = t]
    IN  /\ calls' = calls + 1
        /\ UNCHANGED meta_documents
        /\ IF ~db_ok
           THEN /\ inv' = [inv EXCEPT ![p] =
                      [fresh EXCEPT !.pc = "handler", !.processing_error = DatabaseError]]
           ELSE IF t \notin TopicTable
           THEN inv' = [Returning(p, ErrorResult(<<"Topic ", ToString(t), " not found">>), 0)
                           EXCEPT ![p].entry = entry, ![p].topic_id = t]
           ELSE IF NotesOfTopic(t) = <<>>
           THEN inv' = [Returning(p, ErrorResult(<<"No files found for this topic">>), 0)
                           EXCEPT ![p].entry = entry, ![p].topic_id = t]
           ELSE /\ inv' = [inv EXCEPT ![p] = [fresh EXCEPT !.pc = "acquire"]]

\* A request thread is free to serve the next request.
Free(p) == inv[p].pc = "idle"

\* process_topic_files(topic_id), lines 111-120
CallTopic(p) ==
    /\ Free(p)
    /\ calls < MaxCalls
    /\ \E t \in RequestedTopicIds, db_ok \in BOOLEAN : LookupTopic(p, t, "topic", db_ok)
    /\ UNCHANGED <<chunkVars, synthVars, cleanVars, extractVars, upvoteVars>>

\* process_single_file(note_id), lines 215-224: the lookup of the note, its own
\* handler, and the delegation to process_topic_files(note.topic_id)
CallNote(p) ==
    /\ Free(p)
    /\ calls < MaxCalls
    /\ \E n \in RequestedNoteIds, note_ok \in BOOLEAN :
          IF ~note_ok
          THEN /\ calls' = calls + 1
               /\ inv' = [Returning(p, ErrorResult(<<"Processing failed: ", DatabaseError>>), 0)
                             EXCEPT ![p].entry = "note"]
               /\ UNCHANGED meta_documents
          ELSE IF n \notin DOMAIN NoteTable
          THEN /\ calls' = calls + 1
               /\ inv' = [Returning(p, ErrorResult(<<"Note ", ToString(n), " not found">>), 0)
                             EXCEPT ![p].entry = "note"]
               /\ UNCHANGED meta_documents
          ELSE \E db_ok \in BOOLEAN :
                  LookupTopic(p, NoteTable[n].topic_id, "note", db_ok)
    /\ UNCHANGED <<chunkVars, synthVars, cleanVars, extractVars, upvoteVars>>

\* lines 123-126: the rows the filter of the query selects.  JobsOfTopic is
\* the filter without processing_status='processing'; C7 tells them apart.
JobsOfTopic(t) == {j \in DOMAIN meta_documents : meta_documents[j].topic_id = t}
ProcessingJobs(t) ==
    {j \in DOMAIN meta_documents :
        /\ meta_documents[j].topic_id = t
        /\ meta_documents[j].processing_status = "processing"}

\* lines 123-126: the query for a row of the topic in status 'processing'.
\* .first() has no ORDER BY: any matching row may be the one returned.
Acquire(p) ==
    /\ inv[p].pc = "acquire"
    /\ LET matching == ProcessingJobs(inv[p].topic_id)
       IN  \/ inv' = Raised(p, DatabaseError, 0)
           \/ /\ matching = {}
              /\ inv' = [inv EXCEPT ![p].pc = "create"]
           \/ \E j \in matching :
                 inv' = [inv EXCEPT ![p].pc = "extract",
                                    ![p].bound = TRUE,
                                    ![p].meta_document = j,
                                    ![p].loaded = meta_documents[j],
                                    ![p].expired = FALSE]
    /\ UNCHANGED <<meta_documents, calls, chunkVars, synthVars, cleanVars, extractVars, upvoteVars>>

\* lines 135-136: db.session.add and the commit that inserts the row.
\* InsertedLater leaves the row to a later commit; C28 tells them apart.
InsertedLater(rows, row) == rows
Inserted(rows, row) == Append(rows, row)

\* lines 128-136: the new row and its commit.  A commit that fails rolls back
\* and leaves the new object without a row.
Create(p) ==
    /\ inv[p].pc = "create"
    /\ \/ /\ meta_documents' = Inserted(meta_documents, NewMetaDocument(inv[p].topic_id))
          /\ inv' = [inv EXCEPT ![p].pc = "extract",
                                ![p].bound = TRUE,
                                ![p].created = TRUE,
                                ![p].meta_document = Len(meta_documents) + 1,
                                ![p].expired = TRUE]
       \/ /\ inv' = [Raised(p, DatabaseError, 0) EXCEPT ![p].bound = TRUE]
          /\ UNCHANGED meta_documents
    /\ UNCHANGED <<calls, chunkVars, synthVars, cleanVars, extractVars, upvoteVars>>

\* lines 139-160: the extraction of every note, the failure when no note gives
\* usable text, and otherwise the combined text and the entry of chunk_text
\* (llm_service.py:68-82 or 99-106), which returns [] for an empty text and
\* [text] for a text within one window.  A chunk is kept as its window
\* <<start, end>>.
Extract(p) ==
    /\ inv[p].pc = "extract"
    /\ \E outcomes \in OutcomeLists(Len(NotesOfTopic(inv[p].topic_id))) :
          LET source_filenames == UsedFilenames(NotesOfTopic(inv[p].topic_id), outcomes)
              message == "No text could be extracted from any files"
          IN  IF source_filenames = <<>>
              THEN \/ /\ meta_documents' = Committed(p, FailedFields(message))
                      /\ inv' = [Returning(p, ErrorResult(<<message>>), 0)
                                    EXCEPT ![p].outcomes = outcomes]
                   \/ /\ inv' = Raised(p, DatabaseError, 0)
                      /\ UNCHANGED meta_documents
              ELSE /\ \E size \in CombinedTextSizes :
                         inv' = [inv EXCEPT
                            ![p].outcomes = outcomes,
                            ![p].source_filenames = source_filenames,
                            ![p].combined_size = size,
                            ![p].chunk_start_index = 0,
                            ![p].text_chunks =
                                IF size # 0 /\ FitsOneChunk(size, PipelineWindow)
                                THEN <<<<0, size>>>> ELSE <<>>,
                            ![p].pc =
                                IF FitsOneChunk(size, PipelineWindow)
                                THEN "synthesize" ELSE "chunk_loop"]
                   /\ UNCHANGED meta_documents
    /\ UNCHANGED <<calls, chunkVars, synthVars, cleanVars, extractVars, upvoteVars>>

\* chunk_text's loop (llm_service.py:84, 93 or 108, 116): the test of the
\* while condition, then the body or the return to line 163
ChunkCombinedLoop(p) ==
    /\ inv[p].pc = "chunk_loop"
    /\ inv' = [inv EXCEPT ![p].pc =
                  IF inv[p].chunk_start_index < inv[p].combined_size
                  THEN "chunk_body" ELSE "synthesize"]
    /\ UNCHANGED <<meta_documents, calls, chunkVars, synthVars, cleanVars, extractVars, upvoteVars>>

\* the body of the loop (llm_service.py:85-91 or 109-114); the list is
\* followed for its first MaxLoopIterations entries
ChunkCombinedBody(p) ==
    /\ inv[p].pc = "chunk_body"
    /\ LET chunk_end_index ==
               ChunkEndIndex(inv[p].chunk_start_index, PipelineWindow,
                             inv[p].combined_size)
       IN  inv' = [inv EXCEPT
              ![p].text_chunks =
                  IF Len(@) < MaxLoopIterations
                  THEN Append(@, <<inv[p].chunk_start_index, chunk_end_index>>)
                  ELSE @,
              ![p].chunk_start_index = NextStartIndex(chunk_end_index, PipelineOverlap),
              ![p].pc = "chunk_loop"]
    /\ UNCHANGED <<meta_documents, calls, chunkVars, synthVars, cleanVars, extractVars, upvoteVars>>

\* lines 163-190: synthesize_text_with_llm, then the commit of the failure or
\* of the result.  An absent text violates NOT NULL (models.py:214) at the
\* commit.
Synthesize(p) ==
    /\ inv[p].pc = "synthesize"
    /\ \E r \in (IF inv[p].text_chunks = <<>> THEN {NoChunksResult} ELSE SynthesisResults) :
          LET requests == inv[p].api_requests + RequestsIssued(r)
              chunk_count == Len(inv[p].text_chunks)
          IN  IF r.error # None
              THEN \/ /\ meta_documents' = Committed(p, FailedFields(r.error))
                      /\ inv' = [Returning(p, ErrorResult(<<r.error>>), requests)
                                    EXCEPT ![p].llm_phase = r.phase]
                   \/ /\ inv' = [Raised(p, DatabaseError, requests)
                                    EXCEPT ![p].llm_phase = r.phase]
                      /\ UNCHANGED meta_documents
              ELSE \/ /\ r.text # None
                      /\ meta_documents' =
                            Committed(p, CompletedFields(r.text, inv[p].source_filenames,
                                                         chunk_count, r.tokens))
                      /\ inv' = [Returning(p, SuccessResult(inv[p].meta_document, chunk_count,
                                                 r.tokens), requests)
                                    EXCEPT ![p].llm_phase = r.phase]
                   \/ /\ inv' = [Raised(p, IF r.text = None THEN NotNullError
                                          ELSE DatabaseError, requests)
                                    EXCEPT ![p].llm_phase = r.phase]
                      /\ UNCHANGED meta_documents
    /\ UNCHANGED <<calls, chunkVars, synthVars, cleanVars, extractVars, upvoteVars>>

\* lines 192-199: the handler.  Its own commit may fail too; the exception then
\* leaves process_topic_files (raised), and process_single_file (lines 223-224)
\* turns it into an error result.
HandlerOutcomes(p, entry) ==
    LET result == ErrorResult(<<"Processing failed: ", inv[p].processing_error>>)
    IN  IF inv[p].bound /\ inv[p].meta_document # 0
        THEN {[result |-> result,
               rows   |-> Committed(p, FailedFields(inv[p].processing_error)),
               raised |-> FALSE],
              [result |-> IF entry = "note"
                          THEN ErrorResult(<<"Processing failed: ", DatabaseError>>)
                          ELSE Propagated(DatabaseError),
               rows   |-> meta_documents,
               raised |-> TRUE]}
        ELSE {[result |-> result, rows |-> meta_documents, raised |-> FALSE]}

Handler(p) ==
    /\ inv[p].pc = "handler"
    /\ \E outcome \in HandlerOutcomes(p, inv[p].entry) :
          /\ meta_documents' = outcome.rows
          /\ inv' = [Returning(p, outcome.result, inv[p].api_requests)
                        EXCEPT ![p].topic_raised = outcome.raised]
    /\ UNCHANGED <<calls, chunkVars, synthVars, cleanVars, extractVars, upvoteVars>>

\* The caller has taken the result; the thread serves the next request.
Return(p) ==
    /\ inv[p].pc = "return"
    /\ inv' = [inv EXCEPT ![p] = IdleInvocation]
    /\ UNCHANGED <<meta_documents, calls, chunkVars, synthVars, cleanVars, extractVars, upvoteVars>>

Step(p) ==
    \/ CallTopic(p)
    \/ CallNote(p)
    \/ Acquire(p)
    \/ Create(p)
    \/ Extract(p)
    \/ ChunkCombinedLoop(p)
    \/ ChunkCombinedBody(p)
    \/ Synthesize(p)
    \/ Handler(p)
    \/ Return(p)

Init == ChunkOff /\ SynthOff /\ CleanOff /\ ExtractOff /\ UpvoteOff /\ PipeInit
Next == \E p \in Threads : Step(p)
Spec == Init /\ [][Next]_vars
\* A request thread that can take a step of its invocation eventually takes it.
Running(p) ==
    \/ Acquire(p)
    \/ Create(p)
    \/ Extract(p)
    \/ ChunkCombinedLoop(p)
    \/ ChunkCombinedBody(p)
    \/ Synthesize(p)
    \/ Handler(p)
    \/ Return(p)
FairSpec == Spec /\ \A p \in Threads : WF_vars(Running(p))

\* synthesize_text_with_llm alone, on every chunk list of the bound.
SynthSpecInit == ChunkOff /\ SynthInit /\ CleanOff /\ ExtractOff /\ UpvoteOff /\ PipeOff
SynthSpec == SynthSpecInit /\ [][SynthNext]_vars

\* clean_text alone, on every text of the bound and on the documented example.
CleanSpecInit == ChunkOff /\ SynthOff /\ CleanInit /\ ExtractOff /\ UpvoteOff /\ PipeOff
CleanSpec == CleanSpecInit /\ [][CleanNext]_vars

\* extract_text_from_file alone, on every file and fault of the bound.
ExtractSpecInit == ChunkOff /\ SynthOff /\ CleanOff /\ ExtractInit /\ UpvoteOff /\ PipeOff
ExtractSpec == ExtractSpecInit /\ [][ExtractNext]_vars

(***************************************************************************)
(* upvote_note (upload_routes.py:217-272) with tables notes and upvotes    *)
(* (models.py:102-182).  Every request runs on its own thread with its own *)
(* session.  A step is one access to the database: the load of the note,   *)
(* the query for an existing upvote, the commit.  A SELECT reads the       *)
(* committed rows and holds no lock afterwards; the commit flushes the     *)
(* INSERT and UPDATE notes SET upvote_count = <the value computed from the *)
(* count the request loaded>.                                              *)
(***************************************************************************)
MaxUpvoteCalls == 3
Users == {1, 2}
UpvotedNoteIds == {1}
RequestedUpvoteNoteIds == {1, 2}

HTTP_STATUS_OK == 200
HTTP_STATUS_NOT_FOUND == 404
HTTP_STATUS_INTERNAL_SERVER_ERROR == 500

IntegrityError == "IntegrityError: UNIQUE constraint failed: upvotes.user_id, upvotes.note_id"

IdleUpvote ==
    [pc |-> "idle", authenticated_user_id |-> 0, note_id |-> 0,
     current_upvote_count |-> 0,
     response |-> [code |-> 0, body |-> "", upvote_count |-> 0]]

UpvoteInit ==
    /\ upvotes = <<>>
    /\ upvote_count = [n \in UpvotedNoteIds |-> 0]
    /\ up = [p \in Threads |-> IdleUpvote]
    /\ up_calls = 0

\* The response of a request and the end of its work.
Responded(p, code, body, count) ==
    [up EXCEPT ![p] = [IdleUpvote EXCEPT
                          !.pc = "respond",
                          !.authenticated_user_id = up[p].authenticated_user_id,
                          !.note_id = up[p].note_id,
                          !.response = [code |-> code, body |-> body,
                                        upvote_count |-> count]]]

\* Upvote.query.filter_by(user_id=..., note_id=...), lines 242-245
ExistingUpvotes(user, note) ==
    {i \in DOMAIN upvotes : upvotes[i].user_id = user /\ upvotes[i].note_id = note}

\* lines 236-240: the identity of the caller and the load of the note, with
\* its upvote_count as committed at that moment
UpvoteLoadNote(p) ==
    /\ up[p].pc = "idle"
    /\ up_calls < MaxUpvoteCalls
    /\ up_calls' = up_calls + 1
    /\ \E user \in Users, note \in RequestedUpvoteNoteIds, db_ok \in BOOLEAN :
          LET request == [up EXCEPT ![p].authenticated_user_id = user,
                                    ![p].note_id = note]
          IN  IF ~db_ok
              THEN up' = [Responded(p, HTTP_STATUS_INTERNAL_SERVER_ERROR, DatabaseError, 0)
                             EXCEPT ![p].authenticated_user_id = user,
                                    ![p].note_id = note]
              ELSE IF note \notin UpvotedNoteIds
              THEN up' = [Responded(p, HTTP_STATUS_NOT_FOUND, "Note not found", 0)
                             EXCEPT ![p].authenticated_user_id = user,
                                    ![p].note_id = note]
              ELSE up' = [request EXCEPT ![p].pc = "query",
                                         ![p].current_upvote_count = upvote_count[note]]
    /\ UNCHANGED <<upvotes, upvote_count>>
    /\ UNCHANGED <<chunkVars, synthVars, cleanVars, extractVars, pipeVars>>

\* lines 242-252: the query for an upvote of this user on this note
UpvoteQuery(p) ==
    /\ up[p].pc = "query"
    /\ \/ up' = Responded(p, HTTP_STATUS_INTERNAL_SERVER_ERROR, DatabaseError, 0)
       \/ IF ExistingUpvotes(up[p].authenticated_user_id, up[p].note_id) # {}
          THEN up' = Responded(p, HTTP_STATUS_OK, "Already upvoted",
                               up[p].current_upvote_count)
          ELSE up' = [up EXCEPT ![p].pc = "commit"]
    /\ UNCHANGED <<upvotes, upvote_count, up_calls>>
    /\ UNCHANGED <<chunkVars, synthVars, cleanVars, extractVars, pipeVars>>

\* lines 259-260: the count the request writes
IncrementedCount(current_upvote_count) == current_upvote_count + 1

\* lines 255-272: the new row, the incremented count, the commit.  The unique
\* constraint (models.py:182) rejects a second row of the same user and note;
\* the handler rolls back and answers 500.
UpvoteCommit(p) ==
    /\ up[p].pc = "commit"
    /\ LET user == up[p].authenticated_user_id
           note == up[p].note_id
           count == IncrementedCount(up[p].current_upvote_count)
       IN  IF ExistingUpvotes(user, note) # {}
           THEN /\ up' = Responded(p, HTTP_STATUS_INTERNAL_SERVER_ERROR, IntegrityError, 0)
                /\ UNCHANGED <<upvotes, upvote_count>>
           ELSE \/ /\ upvotes' = Append(upvotes, [user_id |-> user, note_id |-> note])
                   /\ upvote_count' = [upvote_count EXCEPT ![note] = count]
                   /\ up' = Responded(p, HTTP_STATUS_OK, "Upvoted successfully", count)
                \/ /\ up' = Responded(p, HTTP_STATUS_INTERNAL_SERVER_ERROR, DatabaseError, 0)
                   /\ UNCHANGED <<upvotes, upvote_count>>
    /\ UNCHANGED up_calls
    /\ UNCHANGED <<chunkVars, synthVars, cleanVars, extractVars, pipeVars>>

\* The response is sent; the thread serves the next request.
UpvoteRespond(p) ==
    /\ up[p].pc = "respond"
    /\ up' = [up EXCEPT ![p] = IdleUpvote]
    /\ UNCHANGED <<upvotes, upvote_count, up_calls>>
    /\ UNCHANGED <<chunkVars, synthVars, cleanVars, extractVars, pipeVars>>

UpvoteStep(p) ==
    \/ UpvoteLoadNote(p)
    \/ UpvoteQuery(p)
    \/ UpvoteCommit(p)
    \/ UpvoteRespond(p)

UpvoteNext == \E p \in Threads : UpvoteStep(p)

\* upvote_note alone, served by two threads.
UpvoteSpecInit ==
    ChunkOff /\ SynthOff /\ CleanOff /\ ExtractOff /\ UpvoteInit /\ PipeOff
UpvoteSpec == UpvoteSpecInit /\ [][UpvoteNext]_vars

(***************************************************************************)
(* Properties of the pipeline (Spec, FairSpec).                            *)
(***************************************************************************)
Rows == DOMAIN meta_documents
Status(j) == meta_documents[j].processing_status

\* C1 (as claimed): every row that is in status 'processing' eventually is in
\* status 'completed' or 'failed'.
C1_ProcessingReachesTerminal ==
    \A j \in 1..MaxCalls :
        (j \in Rows /\ Status(j) = "processing")
            ~> (j \in Rows /\ Status(j) \in Terminal)

\* C3 (as claimed): a row's status changes only from 'processing' to
\* 'completed' or 'failed'; a row in 'completed' or 'failed' keeps its status.
C3_StatusOnlyMovesForward ==
    [][\A j \in Rows :
          \/ meta_documents'[j].processing_status = Status(j)
          \/ /\ Status(j) = "processing"
             /\ meta_documents'[j].processing_status \in Terminal]_vars

\* C4 (as claimed): in every committed state a row's synthesized content is
\* non-empty if and only if its status is 'completed'.
C4_ContentIffCompleted ==
    \A j \in Rows :
        (meta_documents[j].synthesized_content # "") <=> (Status(j) = "completed")

\* C5 (as claimed): in every committed state a row's error_message is non-null
\* if and only if its status is 'failed'.
C5_ErrorIffFailed ==
    \A j \in Rows :
        (meta_documents[j].error_message # None) <=> (Status(j) = "failed")

\* C6 (as claimed): in every state at most one row of a topic is in status
\* 'processing'.
C6_OneProcessingRowPerTopic ==
    \A i, j \in Rows :
        (/\ meta_documents[i].topic_id = meta_documents[j].topic_id
         /\ Status(i) = "processing"
         /\ Status(j) = "processing") => i = j

\* C7: an invocation whose query finds no row of its topic in 'processing'
\* creates exactly one new row (in 'processing', for its topic) and changes no
\* other row, whatever completed or failed rows the topic has; an invocation
\* whose query finds such a row binds to it and creates none; no step creates
\* a row otherwise and no step removes one.
C7_CreateOneOrReuse ==
    [][/\ \A j \in Rows : j \in DOMAIN meta_documents'
       /\ Len(meta_documents') \in {Len(meta_documents), Len(meta_documents) + 1}
       /\ Len(meta_documents') = Len(meta_documents) + 1 =>
             \E p \in Threads : inv[p].pc = "create" /\ inv'[p].pc = "extract"
       /\ \A p \in Threads :
             LET active == {j \in Rows :
                               /\ meta_documents[j].topic_id = inv[p].topic_id
                               /\ Status(j) = "processing"}
             IN  /\ (inv[p].pc = "acquire" /\ inv'[p].pc = "create") => active = {}
                 /\ (inv[p].pc = "acquire" /\ inv'[p].pc = "extract") =>
                       /\ inv'[p].meta_document \in active
                       /\ ~inv'[p].created
                       /\ meta_documents' = meta_documents
                 /\ (inv[p].pc = "create" /\ inv'[p].pc = "extract") =>
                       /\ Len(meta_documents') = Len(meta_documents) + 1
                       /\ \A j \in Rows : meta_documents'[j] = meta_documents[j]
                       /\ inv'[p].meta_document = Len(meta_documents')
                       /\ inv'[p].created
                       /\ meta_documents'[Len(meta_documents')].topic_id = inv[p].topic_id
                       /\ meta_documents'[Len(meta_documents')].processing_status
                              = "processing"
                 /\ inv'[p].pc = "create" => inv[p].pc \in {"acquire", "create"}]_vars

\* One invocation has created the row of topic 1 and a second, overlapping
\* invocation for the topic has found that row in 'processing' and reuses it.
C7_Witness ==
    \E p, q \in Threads :
        /\ p # q
        /\ Len(meta_documents) = 1
        /\ inv[p].created /\ inv[p].meta_document = 1
        /\ inv[q].pc = "extract" /\ inv[q].bound /\ ~inv[q].created
        /\ inv[q].meta_document = 1
        /\ inv[q].topic_id = meta_documents[1].topic_id

\* The original filenames of the notes of topic t whose extraction gave
\* usable text, in the order of the notes.
FilenamesWithText(t, outcomes) ==
    LET notes == SelectSeq([n \in 1..Len(NoteTable) |-> n],
                           LAMBDA n : NoteTable[n].topic_id = t)
        used == SelectSeq([i \in 1..Len(notes) |-> i],
                          LAMBDA i : outcomes[i] = "text")
    IN  [k \in 1..Len(used) |-> NoteTable[notes[used[k]]].original_filename]

\* C11: a note that fails extraction or cleans to empty text is skipped and
\* does not abort the job: when at least one note gives usable text the
\* invocation goes on to chunking with exactly the filenames of the notes that
\* gave text, in note order, and when it then commits a successful synthesis
\* the row is 'completed' and its source_filenames is the JSON list of exactly
\* those filenames.
C11_FailedFilesAreSkipped ==
    [][\A p \in Threads :
          /\ (inv[p].pc = "extract" /\ inv'[p].pc \in {"synthesize", "chunk_loop"}) =>
                /\ \E i \in DOMAIN inv'[p].outcomes : inv'[p].outcomes[i] = "text"
                /\ inv'[p].source_filenames =
                       FilenamesWithText(inv[p].topic_id, inv'[p].outcomes)
          /\ (inv[p].pc = "extract" /\ inv'[p].pc = "return") =>
                \A i \in DOMAIN inv'[p].outcomes : inv'[p].outcomes[i] # "text"
          /\ (inv[p].pc = "synthesize" /\ inv'[p].result.status = "success") =>
                LET row == meta_documents'[inv[p].meta_document]
                IN  /\ row.processing_status = "completed"
                    /\ row.source_filenames =
                          <<"[">> \o FilenamesWithText(inv[p].topic_id, inv[p].outcomes)
                                  \o <<"]">>]_vars

\* A job completed from a topic whose first file gave no usable text: only
\* the second file's name is recorded.
C11_Witness ==
    \E p \in Threads :
        /\ inv[p].pc = "return"
        /\ inv[p].result.status = "success"
        /\ meta_documents[inv[p].result.meta_document_id].processing_status = "completed"
        /\ meta_documents[inv[p].result.meta_document_id].source_filenames
               = <<"[", "b.txt", "]">>

\* C12 (as claimed): when the synthesizer returns an error, the commit leaves
\* the row 'failed' with error_message equal to the synthesizer's error string,
\* with synthesized_content empty and source_filenames, chunk_count and
\* token_count at their initial values, and the result is an error result
\* carrying the same message.
C12_SynthesisErrorMarksFailed ==
    [][\A p \in Threads :
          (/\ inv[p].pc = "synthesize"
           /\ inv'[p].pc = "return"
           /\ inv'[p].result.status = "error") =>
              LET row == meta_documents'[inv[p].meta_document]
              IN  /\ row.processing_status = "failed"
                  /\ row.error_message # None
                  /\ inv'[p].result.message = <<row.error_message>>
                  /\ row.synthesized_content = ""
                  /\ row.source_filenames = <<"[", "]">>
                  /\ row.chunk_count = 0
                  /\ row.token_count = 0]_vars

\* C13 (as claimed): when a usable text was extracted and the synthesizer
\* returns (text, no error, tokens), the committed row is 'completed' with
\* synthesized_content = text, source_filenames = the JSON list of the names
\* used, chunk_count = the number of chunks, token_count = tokens and
\* error_message null, and the result is 'success' with the row's id and the
\* same counts.
C13_SuccessCommitsAllFields ==
    [][\A p \in Threads :
          (inv[p].pc = "synthesize" /\ inv'[p].result.status = "success") =>
              LET row == meta_documents'[inv[p].meta_document]
                  res == inv'[p].result
              IN  /\ row.processing_status = "completed"
                  /\ \E r \in SynthesisResults :
                        /\ r.error = None /\ r.text # None
                        /\ row.synthesized_content = r.text
                        /\ row.token_count = r.tokens
                        /\ res.token_count = r.tokens
                  /\ row.source_filenames =
                        <<"[">> \o inv[p].source_filenames \o <<"]">>
                  /\ row.chunk_count = Len(inv[p].text_chunks)
                  /\ row.error_message = None
                  /\ res.meta_document_id = inv[p].meta_document
                  /\ res.chunk_count = Len(inv[p].text_chunks)]_vars

\* C14: when no note of the topic gives usable text, the invocation commits
\* the row as 'failed' with error_message 'No text could be extracted from any
\* files' and returns an error result with that message, without a call of
\* the chunker or of the synthesizer; the chunker is entered only with at
\* least one usable text.
C14_NoTextMarksFailed ==
    [][\A p \in Threads :
          /\ (inv[p].pc = "extract" /\ inv'[p].pc = "return") =>
                LET row == meta_documents'[inv[p].meta_document]
                IN  /\ \A i \in DOMAIN inv'[p].outcomes : inv'[p].outcomes[i] # "text"
                    /\ row.processing_status = "failed"
                    /\ row.error_message = "No text could be extracted from any files"
                    /\ inv'[p].result.status = "error"
                    /\ inv'[p].result.message =
                          <<"No text could be extracted from any files">>
                    /\ inv'[p].api_requests = 0
                    /\ inv'[p].text_chunks = <<>>
          /\ (inv[p].pc = "extract" /\ inv'[p].pc \in {"synthesize", "chunk_loop"}) =>
                \E i \in DOMAIN inv'[p].outcomes : inv'[p].outcomes[i] = "text"
          /\ (inv'[p].pc \in {"synthesize", "chunk_loop", "chunk_body"}
                /\ inv[p].pc # inv'[p].pc) =>
                inv[p].pc \in {"extract", "chunk_loop", "chunk_body"}]_vars

\* An invocation whose two files gave an extraction error and an empty text
\* has returned, and a row of its topic is 'failed' with the message.
C14_Witness ==
    \E p \in Threads :
        /\ inv[p].pc = "return"
        /\ inv[p].outcomes = <<"error", "empty">>
        /\ inv[p].result.message = <<"No text could be extracted from any files">>
        /\ \E j \in Rows :
              /\ meta_documents[j].topic_id = inv[p].topic_id
              /\ Status(j) = "failed"
              /\ meta_documents[j].error_message
                     = "No text could be extracted from any files"

\* C15: an invocation for a topic that does not exist, or that has no notes,
\* returns an error result at once and leaves every row as it was: no row is
\* created and none is modified; only a topic that exists and has notes gets
\* as far as the query for a job.
C15_NotFoundLeavesStoreUnchanged ==
    [][\A p \in Threads :
          LET t == inv'[p].topic_id
              sources == {n \in DOMAIN NoteTable : NoteTable[n].topic_id = t}
          IN  /\ (inv[p].pc = "idle" /\ inv'[p].pc = "return") =>
                    /\ meta_documents' = meta_documents
                    /\ inv'[p].result.status = "error"
              /\ (inv[p].pc = "idle" /\ inv'[p].pc = "return"
                    /\ inv'[p].entry = "topic") =>
                    /\ t \notin TopicTable \/ sources = {}
                    /\ inv'[p].result.message =
                          (IF t \notin TopicTable
                           THEN <<"Topic ", ToString(t), " not found">>
                           ELSE <<"No files found for this topic">>)
              /\ (inv[p].pc = "idle" /\ inv'[p].pc = "acquire") =>
                    t \in TopicTable /\ sources # {}
              /\ (inv[p].pc = "idle" /\ inv'[p].pc = "handler") =>
                    meta_documents' = meta_documents /\ ~inv'[p].bound
              /\ (inv[p].pc = "handler" /\ ~inv[p].bound /\ inv'[p].pc = "return") =>
                    meta_documents' = meta_documents]_vars

\* A request for topic 2, which has no notes, has returned its error while a
\* row of topic 1 exists.
C15_Witness ==
    \E p \in Threads :
        /\ inv[p].pc = "return"
        /\ inv[p].entry = "topic"
        /\ inv[p].topic_id = 2
        /\ inv[p].result = ErrorResult(<<"No files found for this topic">>)
        /\ Len(meta_documents) = 1
        /\ meta_documents[1].topic_id = 1

\* C16 (as claimed): whenever an invocation ends with a no-content error, no
\* sources or no extractable text, a row of that topic is marked 'failed'.
C16_NoContentMarksAJobFailed ==
    [][\A p \in Threads :
          (/\ inv[p].pc # "return"
           /\ inv'[p].pc = "return"
           /\ inv'[p].result.message \in
                 {<<"No files found for this topic">>,
                  <<"No text could be extracted from any files">>}) =>
              /\ inv'[p].result.status = "error"
              /\ \E j \in DOMAIN meta_documents' :
                    /\ meta_documents'[j].topic_id = inv'[p].topic_id
                    /\ meta_documents'[j].processing_status = "failed"]_vars

\* C16 (amended): an invocation that ends because no source gives extractable
\* text reports the error and leaves its job row, a row of that topic, marked
\* 'failed'; an invocation that ends because the topic has no sources reports
\* the error and marks no row: no row is created or changed.
C16_NoTextFailsNoSourcesLeaves ==
    [][\A p \in Threads :
          /\ (/\ inv[p].pc # "return"
              /\ inv'[p].pc = "return"
              /\ inv'[p].result.message =
                    <<"No text could be extracted from any files">>) =>
                /\ inv'[p].result.status = "error"
                /\ inv[p].meta_document \in DOMAIN meta_documents'
                /\ meta_documents'[inv[p].meta_document].topic_id = inv'[p].topic_id
                /\ meta_documents'[inv[p].meta_document].processing_status = "failed"
          /\ (/\ inv[p].pc # "return"
              /\ inv'[p].pc = "return"
              /\ inv'[p].result.message = <<"No files found for this topic">>) =>
                /\ inv'[p].result.status = "error"
                /\ meta_documents' = meta_documents]_vars

\* Both no-content endings side by side: one request has ended for topic 2,
\* which has no sources, and no row of topic 2 exists; the other has ended
\* for topic 1 without extractable text, and the row of topic 1 is 'failed'.
C16_Witness ==
    \E p, q \in Threads :
        /\ inv[p].pc = "return"
        /\ inv[p].result.message = <<"No files found for this topic">>
        /\ \A j \in Rows : meta_documents[j].topic_id # inv[p].topic_id
        /\ inv[q].pc = "return"
        /\ inv[q].result.message = <<"No text could be extracted from any files">>
        /\ \E j \in Rows :
              meta_documents[j].topic_id = inv[q].topic_id /\ Status(j) = "failed"

\* C17 (as claimed): no invocation of process_topic_files or of
\* process_single_file ends with an exception: every invocation that ends
\* hands its caller a result whose status is 'success' or 'error'.
C17_NoExceptionEscapes ==
    \A p \in Threads :
        inv[p].pc = "return" => inv[p].result.status \in {"success", "error"}

\* C18 (as claimed): process_single_file(note_id) for an existing note ends
\* with a result and an effect on the job rows that process_topic_files of the
\* note's topic can have from the same state, and the rows keep note_id
\* None; for a missing note it returns an error and leaves every row as
\* it was.  The steps before the handler are those of process_topic_files
\* itself (line 221 delegates); the two entries can only differ where the
\* handler at lines 192-199 ends.
C18_SingleFileIsTopicAlias ==
    [][\A p \in Threads :
          /\ (/\ inv[p].entry = "note"
              /\ inv[p].pc = "handler"
              /\ inv'[p].pc = "return")
                => \E outcome \in HandlerOutcomes(p, "topic") :
                      /\ inv'[p].result = outcome.result
                      /\ meta_documents' = outcome.rows
          /\ (/\ inv[p].pc = "idle"
              /\ inv'[p].pc = "return"
              /\ inv'[p].entry = "note")
                => /\ inv'[p].result.status = "error"
                   /\ meta_documents' = meta_documents
          /\ \A j \in DOMAIN meta_documents' : meta_documents'[j].note_id = None
      ]_vars

\* C19 (as claimed): every committed state a polling reader can see is
\* consistent: a row in status 'completed' carries the success fields of
\* the commit that completed it (non-empty content, error_message None), and a
\* row in status 'failed' carries an error message.  Each state of the model is
\* a committed state: meta_documents changes only where a commit succeeds.
C19_ReaderSeesConsistentRows ==
    \A j \in Rows :
        /\ Status(j) = "completed"
              => /\ meta_documents[j].synthesized_content # ""
                 /\ meta_documents[j].error_message = None
        /\ Status(j) = "failed" => meta_documents[j].error_message # None

(***************************************************************************)
(* Properties of synthesize_text_with_llm (SynthSpec).                     *)
(***************************************************************************)
\* C20: called with an empty chunk list, synthesize_text_with_llm returns
\* (None, 'No text chunks provided', 0) in its first step, having constructed
\* no client and sent no completion request.
C20_EmptyChunksReturnAtOnce ==
    [][(sy_pc = "start" /\ chunks = <<>>)
          => /\ sy_pc' = "returned"
             /\ sy_result' = [synthesized_text |-> None,
                              error_message |-> "No text chunks provided",
                              total_tokens |-> 0]
             /\ openai_clients' = 0
             /\ completion_requests' = <<>>]_vars

C20_Witness ==
    /\ chunks = <<>>
    /\ sy_pc = "returned"
    /\ sy_result.error_message = "No text chunks provided"

(***************************************************************************)
(* The completion requests of the pipeline (Spec).                         *)
(***************************************************************************)
\* What C21 says of every step of an invocation, apart from the number of
\* requests of a call that reached the synthesizer with chunks: never more
\* than one request; the handler sends none; a failed request leaves the
\* invocation without a success, and the failure it commits marks the job
\* 'failed'.
OneRequestAtMost(p) ==
    /\ inv'[p].api_requests <= 1
    /\ inv[p].pc = "handler" => inv'[p].api_requests = inv[p].api_requests
    /\ (inv'[p].llm_phase = "failed" /\ inv'[p].pc = "return")
          => /\ inv'[p].result.status # "success"
             /\ inv'[p].api_requests = 1
    /\ (/\ inv[p].pc = "synthesize"
        /\ inv'[p].llm_phase = "failed"
        /\ inv'[p].pc = "return")
          => meta_documents'[inv[p].meta_document].processing_status = "failed"

\* C21 (as claimed): an invocation of process_topic_files sends at most one
\* completion request, and exactly one whenever it reaches the synthesis
\* step with a non-empty chunk list; a failed request is not retried and
\* fails the job.
C21_ExactlyOneRequest ==
    [][\A p \in Threads :
          /\ OneRequestAtMost(p)
          /\ (/\ inv[p].pc = "synthesize"
              /\ inv[p].text_chunks # <<>>
              /\ inv'[p].pc # "synthesize")
                => inv'[p].api_requests = 1
      ]_vars

\* C21 (amended): as above, but the synthesis step with a non-empty chunk list
\* sends exactly one request only when the client could be constructed; when
\* get_openai_client raises (line 134) it sends none, and the job fails too.
C21_OneRequestOnceClientExists ==
    [][\A p \in Threads :
          /\ OneRequestAtMost(p)
          /\ (/\ inv[p].pc = "synthesize"
              /\ inv[p].text_chunks # <<>>
              /\ inv'[p].pc # "synthesize")
                => /\ inv'[p].api_requests =
                         IF inv'[p].llm_phase = "no client" THEN 0 ELSE 1
                   /\ inv'[p].llm_phase = "no client"
                         => inv'[p].result.status # "success"
      ]_vars

\* One invocation has returned a success after one request, another an error
\* after one failed request.
C21_Witness ==
    \E p, q \in Threads :
        /\ inv[p].pc = "return"
        /\ inv[p].result.status = "success"
        /\ inv[p].result.chunk_count >= 1
        /\ inv[p].api_requests = 1
        /\ inv[q].pc = "return"
        /\ inv[q].llm_phase = "failed"
        /\ inv[q].result.status = "error"
        /\ inv[q].api_requests = 1

\* C22 (as claimed): synthesize_text_with_llm never raises and every tuple it
\* returns has exactly one of text and error non-null, a non-empty error,
\* and 0 tokens with an error; when the API answered with a choice
\* the tuple is (content, None, usage), usage being the total_tokens the
\* response reports or 0 when the response carries no usage.
C22_SynthesizerResultIsTwoValued ==
    /\ sy_pc \in {"off", "start", "client", "prompt", "request", "except", "returned"}
    /\ sy_pc = "returned"
          => /\ (sy_result.synthesized_text = None) # (sy_result.error_message = None)
             /\ sy_result.error_message # None
                   => /\ sy_result.error_message # ""
                      /\ sy_result.total_tokens = 0
             /\ (api_response # NoResponse /\ api_response.choices > 0)
                   => sy_result = [synthesized_text |-> api_response.content,
                                   error_message |-> None,
                                   total_tokens |-> IF api_response.usage = "present"
                                                    THEN api_response.total_tokens
                                                    ELSE 0]

(***************************************************************************)
(* Properties of clean_text (CleanSpec).                                   *)
(***************************************************************************)
\* C23: clean_text is idempotent: the call on the result of a first call
\* returns its argument unchanged; and clean_text of the empty or of the null
\* input is the empty string.
C23_CleanTextIdempotent ==
    /\ (cl_pc = "returned" /\ cl_call = 2) => cl_result = cl_arg
    /\ (cl_pc = "returned" /\ cl_call = 1 /\ (cl_arg_none \/ cl_arg = <<>>))
          => cl_result = <<>>

\* A second call has returned a text with two lines, from a first call that
\* changed its argument.
C23_Witness ==
    /\ cl_pc = "returned"
    /\ cl_call = 2
    /\ \E i \in 1..Len(cl_result) : cl_result[i] = "\n"
    /\ \E i \in 1..Len(cl_result) : cl_result[i] = " "

\* C24 (as claimed): clean_text of "a\n\n\n\nb   c" is "a\n\nb c": the run of
\* newlines is collapsed to two, so that one blank line is kept, and the run
\* of spaces to one.
C24_ExampleKeepsBlankLine ==
    (cl_pc = "returned" /\ cl_call = 1 /\ cl_arg = ExampleText)
        => cl_result = <<"a", "\n", "\n", "b", " ", "c">>

\* C24 (amended): clean_text of "a\n\n\n\nb   c" is "a\nb c".  A run of three
\* or more newlines is collapsed to two (line 105) and a run of spaces to one
\* (line 107), but the empty line between two newlines is then dropped (line
\* 111): no result holds two consecutive newlines or two consecutive spaces.
C24_ExampleDropsBlankLine ==
    (cl_pc = "returned" /\ cl_call = 1)
        => /\ cl_arg = ExampleText => cl_result = <<"a", "\n", "b", " ", "c">>
           /\ \A i \in 1..(Len(cl_result) - 1) :
                 /\ ~(cl_result[i] = "\n" /\ cl_result[i + 1] = "\n")
                 /\ ~(cl_result[i] = " " /\ cl_result[i + 1] = " ")

C24_Witness ==
    /\ cl_pc = "returned"
    /\ cl_call = 1
    /\ cl_arg = ExampleText
    /\ cl_result # <<>>

(***************************************************************************)
(* The counts of a job row (Spec).                                         *)
(***************************************************************************)
\* C25 (as claimed): in every committed state a row has chunk_count = 0 and
\* token_count = 0 unless it is 'completed' or failed after a synthesis
\* attempt: every row in 'processing' and every row that failed at the
\* extraction phase (lines 142-146) has both counts 0, shared or not.
C25_CountsZeroUntilSynthesis ==
    \A j \in Rows :
        (\/ Status(j) = "processing"
         \/ /\ Status(j) = "failed"
            /\ meta_documents[j].error_message =
                  "No text could be extracted from any files")
            => /\ meta_documents[j].chunk_count = 0
               /\ meta_documents[j].token_count = 0

(***************************************************************************)
(* Properties of extract_text_from_file (ExtractSpec).                     *)
(***************************************************************************)
\* C26: extract_text_from_file never raises and returns a pair: a missing
\* file gives (None, 'File not found ...'), an unsupported extension (None,
\* 'Unsupported file type ...'), a failure of a format library (None, error),
\* and everything else (text, None); the error is non-null exactly when the
\* text is None.
C26_ExtractionIsTwoValued ==
    /\ ex_pc \in {"off", "start", "dispatch", "pdf", "docx", "txt", "txt_fallback", "returned"}
    /\ ex_pc = "returned"
          => /\ (ex_result.error_message # <<>>) <=> (ex_result.extracted_text = <<>>)
             /\ IF ~ex_exists
                THEN ex_result.error_message = <<<<"File not found: ", file_path>>>>
                ELSE IF file_path[2] \in {".png", ""}
                THEN ex_result.error_message =
                        <<<<"Unsupported file type: ", file_path[2]>>>>
                ELSE IF \/ ex_fault \in {"raises", "decode_raises"}
                        \/ (ex_fault = "decode" /\ file_path[2] # ".txt")
                THEN /\ ex_result.extracted_text = <<>>
                     /\ ex_result.error_message # <<>>
                ELSE /\ ex_result.extracted_text # <<>>
                     /\ ex_result.error_message = <<>>

\* The upper-case extension of an existing file has been read as a PDF.
C26_Witness ==
    /\ ex_pc = "returned"
    /\ ex_exists
    /\ file_path[2] = ".PDF"
    /\ ex_fault = "none"
    /\ Len(ex_pieces) = MaxPieces
    /\ ex_result.extracted_text # <<>>

(***************************************************************************)
(* The windows of chunk_text (ChunkSpec).                                  *)
(***************************************************************************)
\* C27 (as claimed): for overlap < max_chunk_size the windows the loop
\* appends have the width of max_chunk_size tokens and advance by the
\* constant step max_chunk_size - overlap: no window is wider, only the last
\* one may be narrower, and each window starts exactly one step after
\* its predecessor.  Widths and steps are in the units of the running branch.
C27_ConstantStepWindows ==
    (/\ overlap < max_chunk_size
     /\ ck_pc \in {"token_loop", "token_body", "char_loop", "char_body", "returned"}
     /\ windows # <<>>)
        => LET step == IF ck_branch = "tiktoken"
                       THEN max_chunk_size - overlap
                       ELSE (max_chunk_size - overlap) * CHARACTERS_PER_TOKEN_ESTIMATE
           IN  /\ \A i \in DOMAIN windows : windows[i][2] - windows[i][1] <= WindowWidth
               /\ \A i \in 1..(Len(windows) - 1) :
                     /\ windows[i][2] - windows[i][1] = WindowWidth
                     /\ windows[i + 1][1] = windows[i][1] + step

(***************************************************************************)
(* The commits of an invocation (Spec).                                    *)
(***************************************************************************)
\* C28: an invocation that creates a job has committed the row with status
\* 'processing' when it leaves the creation step, so the row is visible
\* during every extraction, chunking and synthesis step; and an invocation of
\* process_topic_files that returns a result has committed the status it
\* assigned: 'completed' with a success, 'failed' with an error.
C28_StatusCommittedBeforeWork ==
    [][\A p \in Threads :
          /\ (inv[p].pc = "create" /\ inv'[p].pc = "extract")
                => /\ inv'[p].meta_document \in DOMAIN meta_documents'
                   /\ meta_documents'[inv'[p].meta_document].processing_status
                         = "processing"
          /\ (/\ inv'[p].created
              /\ inv'[p].pc \in {"extract", "chunk_loop", "chunk_body", "synthesize"})
                => inv'[p].meta_document \in DOMAIN meta_documents'
          /\ (/\ inv[p].pc \in {"extract", "synthesize", "handler"}
              /\ inv[p].bound
              /\ inv[p].meta_document # 0
              /\ inv'[p].pc = "return"
              /\ ~inv'[p].topic_raised)
                => /\ inv[p].meta_document \in DOMAIN meta_documents'
                   /\ meta_documents'[inv[p].meta_document].processing_status =
                         IF inv'[p].result.status = "success"
                         THEN "completed" ELSE "failed"
      ]_vars

\* The invocation that created the row is at its synthesis step and the row is
\* there in status 'processing'.
C28_Witness ==
    \E p \in Threads :
        /\ inv[p].created
        /\ inv[p].pc = "synthesize"
        /\ inv[p].meta_document \in Rows
        /\ Status(inv[p].meta_document) = "processing"

(***************************************************************************)
(* The chunk list at the synthesis step (Spec).                            *)
(***************************************************************************)
\* C29: whenever an invocation is at the synthesis step its chunk list is
\* non-empty, so no result and no row carries the synthesizer's 'No text
\* chunks provided', and every row in status 'completed' has chunk_count >= 1
\* and a source_filenames list that is not '[]'.
C29_SynthesisHasChunks ==
    /\ \A p \in Threads :
          /\ inv[p].pc = "synthesize" => Len(inv[p].text_chunks) >= 1
          /\ inv[p].result.message # <<"No text chunks provided">>
    /\ \A j \in Rows :
          /\ meta_documents[j].error_message # "No text chunks provided"
          /\ Status(j) = "completed"
                => /\ meta_documents[j].chunk_count >= 1
                   /\ Len(meta_documents[j].source_filenames) > 2

\* A row is 'completed' while another invocation is at its synthesis step.
C29_Witness ==
    /\ \E j \in Rows : Status(j) = "completed" /\ meta_documents[j].chunk_count >= 1
    /\ \E p \in Threads : inv[p].pc = "synthesize" /\ inv[p].text_chunks # <<>>

(***************************************************************************)
(* Properties of upvote_note (UpvoteSpec).                                 *)
(***************************************************************************)
\* C30 (as claimed): in every committed state each user has at most one
\* upvote row per note, and every note's upvote_count is the number of
\* upvote rows of that note, whatever the interleaving of the requests.
C30_CountMatchesUpvotes ==
    /\ \A i, j \in DOMAIN upvotes :
          (/\ upvotes[i].user_id = upvotes[j].user_id
           /\ upvotes[i].note_id = upvotes[j].note_id) => i = j
    /\ \A note \in DOMAIN upvote_count :
          upvote_count[note] =
             Cardinality({i \in DOMAIN upvotes : upvotes[i].note_id = note})

====
